---------------------------- MODULE Spec2Model ----------------------------
(***************************************************************************)
(* Model of the knowledge-graph construction and research-opportunity     *)
(* synthesis engine: the identifier minter and ingestion of               *)
(* knowledge-graph-builder/main.py, the analyzer, opportunity miner and   *)
(* hypothesis synthesizer of hypothesis-generator/main.py, and the graph  *)
(* exchange of backend/main.py.                                           *)
(*                                                                         *)
(* Text is modelled as a sequence of tokens.  A token is one character,   *)
(* or a fixed piece of text that the code only ever handles whole (a      *)
(* namespace base such as "https://tools.org/", a word of a template).    *)
(***************************************************************************)
EXTENDS Integers, Sequences, FiniteSets, TLC

VARIABLES
    \* ---- identifier minter (KnowledgeGraphBuilder.create_uri)
    base, nameA, nameB, uriA, uriB, minted,
    \* ---- hypothesis synthesizer (HypothesisGenerator.generate_hypotheses_with_llm)
    api_key, model, backend, opportunities, num_hypotheses, synthResult, synthDone,
    \* ---- builder (KnowledgeGraphBuilder): the store, the blank nodes made so
    \* far, and what the last ingestion call was given and did
    graph, bnodes, calls, op, raised, paper_uri, metadata, emitted, sizeBefore,
    given_paper_uri,
    \* ---- graph exchange (build_knowledge_graph / generate_hypotheses endpoints)
    report, graph_data, rebuilt, stage,
    \* ---- graph analyzer and opportunity miner (HypothesisGenerator)
    graph_file, store, nx_graph, analysis, mined, research_report, phase,
    \* ---- template-based generator (hypothesis_generator/main.py): the call
    \* made and what it returned
    request, reply,
    \* ---- report statistics (HypothesisGenerator._analyze_feasibility): the
    \* hypotheses given and the distribution returned
    hypotheses, distribution,
    \* ---- repeated ingestion of one assessment: the record handed to each
    \* call
    assessment,
    \* ---- pipeline orchestrator (ReproAgentPipeline.run_complete_pipeline):
    \* the call in progress
    pipeline_run,
    \* ---- analysis jobs (backend/main.py): the job table, where each
    \* background task stands, and the files under the server's directories
    processing_jobs, task, disk

mintVars == <<base, nameA, nameB, uriA, uriB, minted>>
synthVars == <<api_key, model, backend, opportunities, num_hypotheses,
               synthResult, synthDone>>

builderVars == <<graph, bnodes, calls, op, raised, paper_uri, metadata, emitted,
                 sizeBefore, given_paper_uri>>
exchVars == <<report, graph_data, rebuilt, stage>>
anVars == <<graph_file, store, nx_graph, analysis, mined, research_report, phase>>

templVars == <<request, reply>>

feasVars == <<hypotheses, distribution>>

assessVars == <<assessment>>

pipeVars == <<pipeline_run>>

jobVars == <<processing_jobs, task, disk>>

vars == <<mintVars, synthVars, builderVars, exchVars, anVars, templVars,
         feasVars,
         assessVars,
         pipeVars,
         jobVars>>

(***************************************************************************)
(* Generic helpers                                                         *)
(***************************************************************************)
Range(s) == {s[i] : i \in 1..Len(s)}

SeqsUpTo(S, n) == UNION {[1..k -> S] : k \in 0..n}

RECURSIVE Flatten(_)
Flatten(ss) == IF ss = <<>> THEN <<>> ELSE Head(ss) \o Flatten(Tail(ss))

\* A Python dict is a function whose domain is the set of its keys: a key that
\* is missing is outside the domain.  Get is dict.get(key, default).
Get(d, key, default) == IF key \in DOMAIN d THEN d[key] ELSE default

\* Decimal digits and the text of a natural number.
Digit(d) == <<"0", "1", "2", "3", "4", "5", "6", "7", "8", "9">>[d + 1]

RECURSIVE NatText(_)
NatText(n) == IF n < 10 THEN <<Digit(n)>> ELSE NatText(n \div 10) \o <<Digit(n % 10)>>

\* str() of a float given in hundredths: 40 is "0.4", 100 is "1.0", 25 is "0.25".
DecimalText(h) ==
    NatText(h \div 100) \o <<".">>
    \o (IF h % 10 = 0 THEN <<Digit((h % 100) \div 10)>>
        ELSE <<Digit((h % 100) \div 10), Digit(h % 10)>>)

(***************************************************************************)
(* Identifier minter                                                       *)
(***************************************************************************)
\* Bound: the longest raw name handed to create_uri.
MaxNameLen == 3

\* Characters a raw name is built from: a letter, a space, an underscore
\* and a character that urllib's quote() has to escape.
NameChars == {"a", " ", "_", "%"}

Names == SeqsUpTo(NameChars, MaxNameLen)

\* quote(..., safe="") of one character: letters, digits and "_.-~" pass,
\* everything else becomes %XX.  A token of several characters stands for
\* text made of unreserved characters only.
QuoteChar(c) ==
    IF c = " " THEN <<"%", "2", "0">>
    ELSE IF c = "%" THEN <<"%", "2", "5">>
    ELSE IF c = "/" THEN <<"%", "2", "F">>
    ELSE IF c = ":" THEN <<"%", "3", "A">>
    ELSE <<c>>

quote(s) == Flatten([i \in 1..Len(s) |-> QuoteChar(s[i])])

\* str.replace(" ", "_"): every single space becomes one underscore.
ReplaceSpaces(s) == [i \in 1..Len(s) |-> IF s[i] = " " THEN "_" ELSE s[i]]

URIRef(text) == [k |-> "uri", v |-> text, dt |-> "none"]

\* Python's None where a term is expected (no paper identifier).
NoneTerm == [k |-> "None", v |-> <<>>, dt |-> "none"]

create_uri(b, identifier) == URIRef(b \o quote(ReplaceSpaces(identifier)))

\* Namespace bases the builder mints in.
ToolsBase == <<"https://tools.org/">>
DatasetsBase == <<"https://datasets.org/">>
AuthorsBase == <<"https://authors.org/">>
OrgsBase == <<"https://organizations.org/">>
KeywordsBase == <<"https://keywords.org/">>
PapersBase == <<"https://papers.org/">>
MethodsBase == <<"https://methods.org/">>
ResultsBase == <<"https://results.org/">>
ConclusionsBase == <<"https://conclusions.org/">>
AssessmentsBase == <<"https://assessments.org/">>

MintBases == {ToolsBase, AuthorsBase}

\* A raw name with every run of spaces shortened to one space.
RECURSIVE CollapseWs(_)
CollapseWs(s) ==
    IF Len(s) < 2 THEN s
    ELSE IF s[1] = " " /\ s[2] = " " THEN CollapseWs(Tail(s))
    ELSE <<s[1]>> \o CollapseWs(Tail(s))

(***************************************************************************)
(* Hypothesis synthesizer (hypothesis-generator/main.py)                   *)
(***************************************************************************)
\* Bounds: the longest opportunity list, the largest requested count and the
\* longest array a backend answers with.
MaxOpps == 2
MaxCount == 3
MaxBackendItems == 2

Min(a, b) == IF a < b THEN a ELSE b

\* Tool and dataset names as they appear in opportunities.
AlphaName == <<"A", "l", "p", "h", "a">>
BetaName == <<"B", "e", "t", "a">>
IrisName == <<"I", "r", "i", "s">>

\* The three opportunity records find_research_opportunities appends.
ToolCombinationOpp(tool1, tool2) ==
    [type |-> "tool_combination",
     description |-> <<"Explore combining ">> \o tool1 \o <<" with ">> \o tool2,
     tools |-> <<tool1, tool2>>,
     rationale |-> "These popular tools haven't been used together in existing research"]

DatasetReuseOpp(dataset) ==
    [type |-> "dataset_reuse",
     description |-> <<"Apply different methodologies to ">> \o dataset,
     dataset |-> dataset,
     rationale |-> "This dataset has been underutilized in research"]

\* Scores are kept in hundredths (0.4 is 40) and as a fraction sum/count.
ReproImprovementOpp(avg_score) ==
    [type |-> "reproducibility_improvement",
     description |-> <<"Develop better reproducibility practices">>,
     current_avg_score |-> avg_score,
     rationale |-> "Current research shows low reproducibility scores"]

HypothesisFields ==
    {"hypothesis", "rationale", "methodology", "required_resources",
     "expected_impact", "feasibility", "novelty_score"}

\* One pass of the loop body of _generate_rule_based_hypotheses.
\* novelty_score is kept in tenths (0.7 is 7).
RuleBasedHypothesis(opp) ==
    IF opp.type = "tool_combination" THEN
        [hypothesis |-> <<"Combining ">> \o opp.tools[1] \o <<" and ">> \o opp.tools[2]
                          \o <<" will improve research outcomes">>,
         rationale |-> opp.rationale,
         methodology |-> <<"Develop integrated workflow using both ">> \o opp.tools[1]
                          \o <<" and ">> \o opp.tools[2],
         required_resources |-> opp.tools,
         expected_impact |-> "Improved computational efficiency and accuracy",
         feasibility |-> "medium",
         novelty_score |-> 7]
    ELSE IF opp.type = "dataset_reuse" THEN
        [hypothesis |-> <<"Applying machine learning methods to ">> \o opp.dataset
                          \o <<" will reveal new insights">>,
         rationale |-> opp.rationale,
         methodology |-> <<"Apply modern ML techniques to analyze ">> \o opp.dataset,
         required_resources |-> <<opp.dataset, <<"machine learning tools">> >>,
         expected_impact |-> "Discovery of previously unknown patterns",
         feasibility |-> "high",
         novelty_score |-> 6]
    ELSE
        [hypothesis |-> <<"Improving research reproducibility through automated validation">>,
         rationale |-> "Current reproducibility scores are low",
         methodology |-> <<"Develop automated reproducibility assessment tools">>,
         required_resources |-> << <<"containerization">>, <<"automated testing">> >>,
         expected_impact |-> "Higher reproducibility across scientific research",
         feasibility |-> "medium",
         novelty_score |-> 5]

\* Python's seq[:n] for n >= 0.
SliceTo(s, n) == SubSeq(s, 1, Min(n, Len(s)))

\* What a call returns: a value, or an exception that leaves the call.
Returned(v) == [raised |-> "none", value |-> v]
Raised(exc) == [raised |-> exc, value |-> <<>>]

\* for i, opp in enumerate(opportunities[:num_hypotheses]): one hypothesis
\* per opportunity of the slice, nothing after the loop.
_generate_rule_based_hypotheses(opps, n) ==
    LET taken == SliceTo(opps, n)
    IN  Returned([i \in 1..Len(taken) |-> RuleBasedHypothesis(taken[i])])

\* json.loads(result) followed by hypotheses[:num_hypotheses], on what the
\* vendor call produced: an exception of the call, text that is no JSON,
\* or JSON of some shape.
ParseAndSlice(resp, n) ==
    IF resp.kind = "raise" THEN Raised(resp.exc)
    ELSE IF resp.kind = "not_json" THEN Raised("JSONDecodeError")
    ELSE IF resp.kind = "json_array" THEN Returned(SliceTo(resp.items, n))
    ELSE IF resp.kind = "json_string" THEN Returned(SliceTo(resp.items, n))
    ELSE Raised("TypeError")    \* a JSON object, number or null has no [:n]

_generate_with_openai(resp, n) == ParseAndSlice(resp, n)

_generate_with_anthropic(resp, n) == ParseAndSlice(resp, n)

_generate_with_gemini(resp, n) == ParseAndSlice(resp, n)

\* str.lower() of the pieces a model name is made of.
Lower(tok) ==
    IF tok = "GPT" THEN "gpt"
    ELSE IF tok = "Claude" THEN "claude"
    ELSE IF tok = "Gemini" THEN "gemini"
    ELSE tok

\* "<vendor>" in self.model.lower()
ModelMentions(m, vendor) == \E i \in 1..Len(m) : Lower(m[i]) = vendor

\* The try block of generate_hypotheses_with_llm: dispatch on the model name.
VendorDispatch(m, resp, opps, n) ==
    IF ModelMentions(m, "gpt") THEN _generate_with_openai(resp, n)
    ELSE IF ModelMentions(m, "claude") THEN _generate_with_anthropic(resp, n)
    ELSE IF ModelMentions(m, "gemini") THEN _generate_with_gemini(resp, n)
    ELSE _generate_rule_based_hypotheses(opps, n)

\* A variant whose except clause lets the exception through.
generate_hypotheses_with_llm_reraise(key, m, resp, opps, n) ==
    IF ~key THEN _generate_rule_based_hypotheses(opps, n)
    ELSE VendorDispatch(m, resp, opps, n)

generate_hypotheses_with_llm(key, m, resp, opps, n) ==
    IF ~key THEN _generate_rule_based_hypotheses(opps, n)
    ELSE LET tried == VendorDispatch(m, resp, opps, n)
         IN  IF tried.raised # "none"      \* except Exception as e
             THEN _generate_rule_based_hypotheses(opps, n)
             ELSE tried

\* ---- inputs of the synthesizer
OppSamples ==
    {ToolCombinationOpp(AlphaName, BetaName), DatasetReuseOpp(IrisName),
     ReproImprovementOpp([sum |-> 40, count |-> 1])}

OppLists == SeqsUpTo(OppSamples, MaxOpps)

ModelNames ==
    {<<"gpt", "-4">>, <<"GPT", "-4">>, <<"claude", "-3">>, <<"gemini", "-pro">>,
     <<"llama", "-2">>}

\* Records a backend may answer with: a complete one, one with only the
\* hypothesis text, one with an unknown feasibility and no resources.
\* A JSON string answers with its characters, each written [char |-> c].
BackendRecords ==
    {[hypothesis |-> <<"H1">>, rationale |-> "R1", methodology |-> <<"M1">>,
      required_resources |-> << <<"tool1">> >>, expected_impact |-> "I1",
      feasibility |-> "high", novelty_score |-> 8],
     [hypothesis |-> <<"H2">>],
     [hypothesis |-> <<"H3">>, rationale |-> "R3", methodology |-> <<"M3">>,
      expected_impact |-> "I3", feasibility |-> "unknown", novelty_score |-> 2]}

BackendOutcomes ==
    {[kind |-> "raise", exc |-> e] : e \in {"TimeoutError", "ConnectionError", "ImportError"}}
    \cup {[kind |-> "not_json"], [kind |-> "json_object"], [kind |-> "json_number"]}
    \cup {[kind |-> "json_string", items |-> <<[char |-> "h"], [char |-> "i"]>>]}
    \cup {[kind |-> "json_array", items |-> it] : it \in SeqsUpTo(BackendRecords, MaxBackendItems)}

(***************************************************************************)
(* Statement store and graph ingestion (knowledge-graph-builder/main.py)   *)
(***************************************************************************)
\* Terms of a statement.  A literal keeps its lexical form and a datatype
\* tag.
Literal(text, datatype) == [k |-> "lit", v |-> text, dt |-> datatype]

\* BNode(): a blank node with a label not used before in this process.
BNode(n) == [k |-> "bnode", v |-> <<"N">> \o NatText(n), dt |-> "none"]

RDF(local) == URIRef(<<"http://www.w3.org/1999/02/22-rdf-syntax-ns#", local>>)
DCTERMS(local) == URIRef(<<"http://purl.org/dc/terms/", local>>)
FOAF(local) == URIRef(<<"http://xmlns.com/foaf/0.1/", local>>)
SCHEMA(local) == URIRef(<<"https://schema.org/", local>>)
REPRO(local) == URIRef(<<"https://reproducibility.org/", local>>)
SCIENTIFIC(local) == URIRef(<<"https://scientific.org/", local>>)

\* A variant of the store's add that appends without looking.
GraphAddAlways(g, t) == Append(g, t)

\* self.graph.add(triple) on the rdflib Graph of the builder: the store keeps
\* one copy of a statement; the sequence keeps the order of first insertion.
GraphAdd(g, t) == IF t \in Range(g) THEN g ELSE GraphAddAlways(g, t)

\* The one element of a singleton set.
Only(S) == CHOOSE r \in S : TRUE

\* The statements ts[i..] handed to the store one after the other; each
\* intermediate store is bound to its value before the next add.
RECURSIVE GraphAddFrom(_, _, _)
GraphAddFrom(g, ts, i) ==
    IF i > Len(ts) THEN g
    ELSE Only({GraphAddFrom(x, ts, i + 1) : x \in {GraphAdd(g, ts[i])}})

GraphAddAll(g, ts) == Only({GraphAddFrom(x, y, 1) : x \in {g}, y \in {ts}})

\* Truth value of record.get(field): a missing key and an empty text or list
\* are false.
Has(d, f) == f \in DOMAIN d /\ d[f] # <<>>

MetadataFields ==
    {"title", "abstract", "doi", "url", "datePublished", "author", "keywords",
     "methodology", "tools", "datasets", "results", "conclusions"}

\* add_author: the statements it adds, in order, and the identifier it returns.
\* An author given as a plain string is the record with only a name.
AuthorName(a) == Get(a, "name", <<"Unknown Author">>)

AuthorUri(a) == create_uri(AuthorsBase, AuthorName(a))

add_author(a) ==
    LET author_uri == AuthorUri(a)
        affiliation_uri == create_uri(OrgsBase, a.affiliation)
    IN  << <<author_uri, RDF("type"), SCHEMA("Person")>>,
           <<author_uri, FOAF("name"), Literal(AuthorName(a), "none")>>,
           <<author_uri, SCHEMA("name"), Literal(AuthorName(a), "none")>> >>
        \o (IF Has(a, "affiliation")
            THEN << <<affiliation_uri, RDF("type"), SCHEMA("Organization")>>,
                    <<affiliation_uri, SCHEMA("name"), Literal(a.affiliation, "none")>>,
                    <<author_uri, SCHEMA("affiliation"), affiliation_uri>> >>
            ELSE <<>>)

\* add_tool and add_dataset, on records [name, url].
ToolName(t) == Get(t, "name", <<"Unknown Tool">>)

ToolUri(t) == create_uri(ToolsBase, ToolName(t))

add_tool(t) ==
    << <<ToolUri(t), RDF("type"), SCIENTIFIC("SoftwareTool")>>,
       <<ToolUri(t), SCHEMA("name"), Literal(ToolName(t), "none")>> >>
    \o (IF Has(t, "url") THEN << <<ToolUri(t), SCHEMA("url"), URIRef(t.url)>> >> ELSE <<>>)

DatasetName(d) == Get(d, "name", <<"Unknown Dataset">>)

DatasetUri(d) == create_uri(DatasetsBase, DatasetName(d))

add_dataset(d) ==
    << <<DatasetUri(d), RDF("type"), SCHEMA("Dataset")>>,
       <<DatasetUri(d), SCHEMA("name"), Literal(DatasetName(d), "none")>> >>
    \o (IF Has(d, "url") THEN << <<DatasetUri(d), SCHEMA("url"), URIRef(d.url)>> >> ELSE <<>>)

\* A variant that looks at the URL before the DOI.
PaperUri_url_first(md, uuid) ==
    IF Has(md, "url") THEN URIRef(md.url)
    ELSE IF Has(md, "doi") THEN URIRef(<<"https://doi.org/">> \o md.doi)
    ELSE create_uri(PapersBase, Get(md, "title", uuid))

\* The paper identifier: DOI, else URL, else minted from the title; uuid is
\* the text str(uuid.uuid4()) yields, used when the record has no title key.
PaperUri(md, uuid) ==
    IF Has(md, "doi") THEN URIRef(<<"https://doi.org/">> \o md.doi)
    ELSE IF Has(md, "url") THEN URIRef(md.url)
    ELSE create_uri(PapersBase, Get(md, "title", uuid))

\* Statements of lines 63-93: type, title, abstract, date, doi, url, authors,
\* keywords.
PaperBasics(md, p_uri) ==
    << <<p_uri, RDF("type"), SCHEMA("ScholarlyArticle")>> >>
    \o (IF Has(md, "title")
        THEN << <<p_uri, SCHEMA("name"), Literal(md.title, "none")>>,
                <<p_uri, DCTERMS("title"), Literal(md.title, "none")>> >>
        ELSE <<>>)
    \o (IF Has(md, "abstract")
        THEN << <<p_uri, SCHEMA("abstract"), Literal(md.abstract, "none")>> >>
        ELSE <<>>)
    \o (IF Has(md, "datePublished")
        THEN << <<p_uri, SCHEMA("datePublished"), Literal(md.datePublished, "date")>> >>
        ELSE <<>>)
    \o (IF Has(md, "doi")
        THEN << <<p_uri, SCHEMA("identifier"), Literal(md.doi, "none")>> >>
        ELSE <<>>)
    \o (IF Has(md, "url")
        THEN << <<p_uri, SCHEMA("url"), URIRef(md.url)>> >>
        ELSE <<>>)
    \o (IF Has(md, "author")
        THEN Flatten([i \in 1..Len(md.author) |->
                 add_author(md.author[i])
                 \o << <<p_uri, SCHEMA("author"), AuthorUri(md.author[i])>> >>])
        ELSE <<>>)
    \o (IF Has(md, "keywords")
        THEN Flatten([i \in 1..Len(md.keywords) |->
                 LET keyword_uri == create_uri(KeywordsBase, md.keywords[i])
                 IN  << <<keyword_uri, RDF("type"), SCHEMA("DefinedTerm")>>,
                        <<keyword_uri, SCHEMA("name"), Literal(md.keywords[i], "none")>>,
                        <<p_uri, SCHEMA("keywords"), keyword_uri>> >>])
        ELSE <<>>)

\* Lines 96-100, 115-119 and 121-125: a sub-entity named after the title.
\* The name is built with metadata['title'], which needs the key.
SubEntity(md, p_uri, ns, suffix, class, link, text) ==
    LET sub_uri == create_uri(ns, md.title \o <<suffix>>)
    IN  << <<sub_uri, RDF("type"), SCIENTIFIC(class)>>,
           <<sub_uri, SCHEMA("description"), Literal(text, "none")>>,
           <<p_uri, link, sub_uri>> >>

PaperTools(md, p_uri) ==
    (IF Has(md, "tools")
     THEN Flatten([i \in 1..Len(md.tools) |->
              add_tool(md.tools[i])
              \o << <<p_uri, SCIENTIFIC("usesTool"), ToolUri(md.tools[i])>> >>])
     ELSE <<>>)
    \o (IF Has(md, "datasets")
        THEN Flatten([i \in 1..Len(md.datasets) |->
                 add_dataset(md.datasets[i])
                 \o << <<p_uri, SCIENTIFIC("usesDataset"), DatasetUri(md.datasets[i])>> >>])
        ELSE <<>>)

\* The statements add_paper_metadata hands to graph.add, in order, up to the
\* point where it returns or raises.
PaperEmission(md, uuid) ==
    LET p_uri == PaperUri(md, uuid)
        s1 == PaperBasics(md, p_uri)
        s2 == s1
              \o (IF Has(md, "methodology")
                  THEN SubEntity(md, p_uri, MethodsBase, "_method", "Methodology",
                                 SCIENTIFIC("usesMethodology"), md.methodology)
                  ELSE <<>>)
              \o PaperTools(md, p_uri)
        s3 == s2
              \o (IF Has(md, "results")
                  THEN SubEntity(md, p_uri, ResultsBase, "_results", "Results",
                                 SCIENTIFIC("hasResults"), md.results)
                  ELSE <<>>)
        s4 == s3
              \o (IF Has(md, "conclusions")
                  THEN SubEntity(md, p_uri, ConclusionsBase, "_conclusions", "Conclusions",
                                 SCIENTIFIC("hasConclusions"), md.conclusions)
                  ELSE <<>>)
        noTitleKey == "title" \notin DOMAIN md
    IN  IF Has(md, "methodology") /\ noTitleKey
            THEN [emitted |-> s1, raised |-> "KeyError", paper_uri |-> NoneTerm]
        ELSE IF Has(md, "results") /\ noTitleKey
            THEN [emitted |-> s2, raised |-> "KeyError", paper_uri |-> NoneTerm]
        ELSE IF Has(md, "conclusions") /\ noTitleKey
            THEN [emitted |-> s3, raised |-> "KeyError", paper_uri |-> NoneTerm]
        ELSE [emitted |-> s4, raised |-> "none", paper_uri |-> p_uri]

add_paper_metadata(g, md, uuid) ==
    LET e == PaperEmission(md, uuid)
    IN  [graph |-> GraphAddAll(g, e.emitted), emitted |-> e.emitted,
         raised |-> e.raised, paper_uri |-> e.paper_uri]

\* ---- assessments
AssessmentFields ==
    {"repository_url", "assessment_timestamp", "reproducibility_score",
     "repository_analysis", "execution_results", "recommendations"}

RepoUrl1 == <<"https://github.com/", "u", "/", "r">>
RepoUrl2 == <<"g", "i", "t", "@", "h", ":", "r">>

\* hash(repo_url) as text: 0 for the empty string, otherwise a number fixed
\* for the life of the process and different for different URLs.
PyHash(text) ==
    IF text = <<>> THEN <<"0">>
    ELSE IF text = RepoUrl1 THEN <<"-", "7", "1">>
    ELSE IF text = RepoUrl2 THEN <<"4", "2">>
    ELSE <<"9">> \o text

AssessmentUri(a) ==
    LET repo_url == Get(a, "repository_url", <<>>)
    IN  create_uri(AssessmentsBase, <<"assessment_">> \o PyHash(repo_url))

BoolText(b) == IF b THEN <<"true">> ELSE <<"false">>

AnalysisProps == <<"has_readme", "has_requirements", "has_dockerfile">>

\* getattr(REPRO, prop.replace("has_", ""))
PropPredicate(prop) ==
    IF prop = "has_readme" THEN REPRO("readme")
    ELSE IF prop = "has_requirements" THEN REPRO("requirements")
    ELSE REPRO("dockerfile")

\* A variant that links the repository whatever it is given as the paper.
PaperLink_always(p_uri, repo_uri) ==
    << <<p_uri, SCIENTIFIC("hasCodeRepository"), repo_uri>> >>

\* Lines 211-213: the link to the paper, if a paper identifier is given.
PaperLink(p_uri, repo_uri) ==
    IF p_uri # NoneTerm
    THEN PaperLink_always(p_uri, repo_uri)
    ELSE <<>>

\* The statements add_reproducibility_assessment hands to graph.add; bn is
\* the number of blank nodes made so far.
AssessmentEmission(a, p_uri, bn) ==
    LET assessment_uri == AssessmentUri(a)
        repo_url == Get(a, "repository_url", <<>>)
        repo_uri == URIRef(repo_url)
    IN  << <<assessment_uri, RDF("type"), REPRO("ReproducibilityAssessment")>> >>
        \o (IF Has(a, "assessment_timestamp")
            THEN << <<assessment_uri, DCTERMS("created"),
                      Literal(a.assessment_timestamp, "dateTime")>> >>
            ELSE <<>>)
        \o (IF "reproducibility_score" \in DOMAIN a
            THEN << <<assessment_uri, REPRO("reproducibilityScore"),
                      Literal(DecimalText(a.reproducibility_score), "float")>> >>
            ELSE <<>>)
        \o (IF repo_url # <<>>
            THEN << <<repo_uri, RDF("type"), SCIENTIFIC("CodeRepository")>>,
                    <<repo_uri, SCHEMA("url"), URIRef(repo_url)>>,
                    <<assessment_uri, REPRO("assessesRepository"), repo_uri>> >>
                 \o PaperLink(p_uri, repo_uri)
            ELSE <<>>)
        \o (IF "repository_analysis" \in DOMAIN a
                  /\ DOMAIN a.repository_analysis # {}
            THEN Flatten([i \in 1..Len(AnalysisProps) |->
                     IF AnalysisProps[i] \in DOMAIN a.repository_analysis
                     THEN << <<assessment_uri, PropPredicate(AnalysisProps[i]),
                               Literal(BoolText(a.repository_analysis[AnalysisProps[i]]),
                                       "boolean")>> >>
                     ELSE <<>>])
            ELSE <<>>)
        \o (IF "execution_results" \in DOMAIN a
                  /\ "success_rate" \in DOMAIN a.execution_results
            THEN << <<assessment_uri, REPRO("executionSuccessRate"),
                      Literal(DecimalText(a.execution_results.success_rate), "float")>> >>
            ELSE <<>>)
        \o (IF Has(a, "recommendations")
            THEN Flatten([i \in 1..Len(a.recommendations) |->
                     LET rec_uri == BNode(bn + i)
                     IN  << <<rec_uri, RDF("type"), REPRO("Recommendation")>>,
                            <<rec_uri, SCHEMA("description"),
                              Literal(a.recommendations[i], "none")>>,
                            <<assessment_uri, REPRO("hasRecommendation"), rec_uri>> >>])
            ELSE <<>>)

add_reproducibility_assessment(g, a, p_uri, bn) ==
    LET handed == AssessmentEmission(a, p_uri, bn)
    IN  [graph |-> GraphAddAll(g, handed), emitted |-> handed, raised |-> "none",
         bnodes |-> bn + (IF Has(a, "recommendations") THEN Len(a.recommendations) ELSE 0)]

\* No file given, or no file at that path.
NoFile == [exists |-> FALSE]
FileOf(content) == [exists |-> TRUE, content |-> content]

\* load_and_process_files on files holding md and a.  An exception of either
\* step is logged and swallowed.
load_and_process_files(g, metadata_file, reproducibility_file, uuid, bn) ==
    LET p == IF metadata_file.exists
             THEN add_paper_metadata(g, metadata_file.content, uuid)
             ELSE [graph |-> g, raised |-> "none", paper_uri |-> NoneTerm]
        added == IF metadata_file.exists /\ p.raised = "none" THEN 1 ELSE 0
    IN  IF reproducibility_file.exists
        THEN LET r == add_reproducibility_assessment(p.graph, reproducibility_file.content,
                                                     p.paper_uri, bn)
             IN  [graph |-> r.graph, bnodes |-> r.bnodes,
                  papers_added |-> added, assessments_added |-> 1]
        ELSE [graph |-> p.graph, bnodes |-> bn,
              papers_added |-> added, assessments_added |-> 0]

\* get_statistics()["total_triples"]: len(self.graph).
total_triples(g) == Len(g)

(***************************************************************************)
(* Graph exchange between the endpoints of backend/main.py                 *)
(***************************************************************************)
\* str(term): the text of an identifier, the lexical form of a literal, the
\* label of a blank node.
Str(term) == term.v

\* Tokens whose text begins with "http".
HttpPrefixed ==
    {"http", "https://schema.org/", "https://reproducibility.org/",
     "https://scientific.org/", "http://purl.org/dc/terms/",
     "http://xmlns.com/foaf/0.1/", "http://www.w3.org/1999/02/22-rdf-syntax-ns#",
     "https://doi.org/", "https://github.com/", "https://ex.org/", "https://beta.org/"}
    \cup {b[1] : b \in {ToolsBase, DatasetsBase, AuthorsBase, OrgsBase, KeywordsBase,
                        PapersBase, MethodsBase, ResultsBase, ConclusionsBase,
                        AssessmentsBase}}

\* text.startswith("http")
StartsWithHttp(text) == text # <<>> /\ text[1] \in HttpPrefixed

\* build_knowledge_graph, lines 216-222: the list of string triples.
ExportGraphData(g) ==
    [i \in 1..Len(g) |->
        [subject |-> Str(g[i][1]), predicate |-> Str(g[i][2]), object |-> Str(g[i][3])]]

\* generate_hypotheses, lines 251-253: one statement from one string triple.
ImportTriple(triple) ==
    << URIRef(triple.subject),
       URIRef(triple.predicate),
       IF StartsWithHttp(triple.object)
       THEN URIRef(triple.object)
       ELSE Literal(triple.object, "none") >>

\* generate_hypotheses, lines 249-254: the graph rebuilt from graph_data.
RebuildGraph(data) ==
    GraphAddAll(<<>>, [i \in 1..Len(data) |-> ImportTriple(data[i])])

(***************************************************************************)
(* Inputs of ingestion                                                     *)
(***************************************************************************)
\* Bound: ingestion calls on one builder.
MaxCalls == 2

TitleP1 == <<"P", "1">>
TitleP2 == <<"P", " ", "2">>
TitleHttp == <<"http", " ", "x">>
AnnName == <<"A", "n", "n">>
MitName == <<"M", "I", "T">>

AuthorInputs ==
    {[name |-> AnnName], [name |-> AnnName, affiliation |-> MitName],
     [affiliation |-> MitName]}

ToolInputs ==
    {[name |-> AlphaName], [name |-> BetaName, url |-> <<"https://beta.org/">>]}

DatasetInputs == {[name |-> IrisName]}

\* str(uuid.uuid4()) of two different calls.
Uuids == {<<"uuid-1">>, <<"uuid-2">>}

\* Every metadata record carries source_file, which the extractor always sets
\* and the builder never reads.
MetadataInputs ==
    {[source_file |-> <<"p.md">>, title |-> TitleP1, methodology |-> <<"m">>,
      author |-> <<[name |-> AnnName]>>,
      tools |-> <<[name |-> AlphaName], [name |-> BetaName, url |-> <<"https://beta.org/">>]>>,
      datasets |-> <<[name |-> IrisName]>>],
     [source_file |-> <<"p.md">>, title |-> TitleP2, doi |-> <<"10.1", "/", "x">>,
      author |-> <<[name |-> AnnName, affiliation |-> MitName]>>,
      keywords |-> << <<"k", "w">> >>, tools |-> <<[name |-> AlphaName]>>,
      results |-> <<"r">>, conclusions |-> <<"c">>],
     [source_file |-> <<"p.md">>, methodology |-> <<"m">>,
      tools |-> <<[name |-> AlphaName]>>],
     [source_file |-> <<"p.md">>, abstract |-> <<"a">>],
     [source_file |-> <<"p.md">>, title |-> TitleHttp, url |-> <<"https://ex.org/", "p">>,
      datePublished |-> <<"2", "0", "2", "4">>]}

\* One value for each optional field, and the records holding any subset of
\* the fields.
FullMetadata ==
    [source_file |-> <<"p.md">>, title |-> TitleP1, abstract |-> <<"a">>,
     doi |-> <<"10.1", "/", "x">>, url |-> <<"https://ex.org/", "p">>,
     datePublished |-> <<"2", "0", "2", "4">>,
     author |-> <<[name |-> AnnName, affiliation |-> MitName]>>,
     keywords |-> << <<"k", "w">> >>, methodology |-> <<"m">>,
     tools |-> <<[name |-> AlphaName]>>, datasets |-> <<[name |-> IrisName]>>,
     results |-> <<"r">>, conclusions |-> <<"c">>]

PartialMetadata(fields) == [f \in fields \cup {"source_file"} |-> FullMetadata[f]]

AllPartialMetadata == {PartialMetadata(F) : F \in SUBSET MetadataFields}

\* Every assessment carries assessment_date, which the assistant always sets
\* and the builder never reads.  Scores are in hundredths.
AssessmentInputs ==
    {[assessment_date |-> <<"d">>, repository_url |-> RepoUrl1,
      assessment_timestamp |-> <<"2", "0", "2", "4">>, reproducibility_score |-> 40,
      repository_analysis |-> [has_readme |-> FALSE, has_dockerfile |-> TRUE],
      execution_results |-> [success_rate |-> 50],
      recommendations |-> << <<"add", " ", "README">>, <<"pin">> >>],
     [assessment_date |-> <<"d">>, repository_url |-> RepoUrl2,
      reproducibility_score |-> 90],
     [assessment_date |-> <<"d">>, reproducibility_score |-> 0,
      recommendations |-> << <<"pin">> >>]}

(***************************************************************************)
(* Graph analyzer and opportunity miner (hypothesis-generator/main.py)     *)
(***************************************************************************)
\* Bound: papers ingested into a graph that is handed to the analyzer.
MaxPapers == 2

\* The 10 of most_common(10) and of [:10], and the 5 of underused_datasets[:5].
TopN == 10
ReuseLimit == 5

RDFS(local) == URIRef(<<"http://www.w3.org/2000/01/rdf-schema#", local>>)

GammaName == <<"G", "a", "m", "m", "a">>

\* The elements of s without repetitions, in the order of first occurrence.
Unique(s) ==
    LET firsts == {i \in 1..Len(s) : \A j \in 1..(i - 1) : s[j] # s[i]}
    IN  [k \in 1..Cardinality(firsts) |->
            s[CHOOSE i \in firsts : Cardinality({j \in firsts : j <= i}) = k]]

\* sorted(s, key=Key, reverse=True): descending, equal keys keep their order.
SortedDesc(s, Key(_)) ==
    [k \in 1..Len(s) |->
        s[CHOOSE i \in 1..Len(s) :
            Cardinality({j \in 1..Len(s) :
                \/ Key(s[j]) > Key(s[i])
                \/ (Key(s[j]) = Key(s[i]) /\ j < i)}) = k - 1]]

RECURSIVE SumTo(_, _)
SumTo(s, n) == IF n = 0 THEN 0 ELSE s[n] + SumTo(s, n - 1)

\* sum(s) of a list of numbers.
Sum(s) == Only({SumTo(y, Len(y)) : y \in {s}})

\* self.graph.objects(subject, predicate), in store order.
Objects(g, s, p) ==
    LET hits == SelectSeq(g, LAMBDA t : t[1] = s /\ t[2] = p)
    IN  [i \in 1..Len(hits) |-> hits[i][3]]

\* The first schema:name of the entity, else its first rdfs:label, else
\* None.  None is written as the empty text: the callers only test the
\* result for truth and compare it with names that are not empty.
_get_entity_name(g, entity_uri) ==
    LET names == Objects(g, entity_uri, SCHEMA("name"))
    IN  IF names # <<>> THEN Str(names[1])
        ELSE LET labels == Objects(g, entity_uri, RDFS("label"))
             IN  IF labels # <<>> THEN Str(labels[1]) ELSE <<>>

\* A dict keeps its keys in insertion order: a sequence of key/count items,
\* tagged with the class the object was made from.
defaultdict(items) == [class |-> "defaultdict", items |-> items]

\* d[key] += 1 on a defaultdict(int).
Increment(items, key) ==
    IF \E j \in 1..Len(items) : items[j].key = key
    THEN [j \in 1..Len(items) |->
             IF items[j].key = key
             THEN [key |-> key, count |-> items[j].count + 1]
             ELSE items[j]]
    ELSE Append(items, [key |-> key, count |-> 1])

RECURSIVE TallyFrom(_, _, _)
TallyFrom(items, keys, i) ==
    IF i > Len(keys) THEN items
    ELSE Only({TallyFrom(x, keys, i + 1) : x \in {Increment(items, keys[i])}})

\* The dict after d[key] += 1 for each key of the list, starting empty.
Tally(keys) == Only({TallyFrom(<<>>, y, 1) : y \in {keys}})

IsDigit(c) == \E d \in 0..9 : Digit(d) = c
DigitValue(c) == CHOOSE d \in 0..9 : Digit(d) = c

RECURSIVE NatValue(_, _)
NatValue(text, n) ==
    IF n = 0 THEN 0 ELSE 10 * NatValue(text, n - 1) + DigitValue(text[n])

\* float(text), in hundredths, for digits with one point and at most two
\* decimals (what str() of a score gives); text holding anything but digits
\* and one point is a ValueError.
float(text) ==
    LET dots == {i \in 1..Len(text) : text[i] = "."}
    IN  IF /\ Cardinality(dots) = 1
           /\ Len(text) >= 2
           /\ \A i \in (1..Len(text)) \ dots : IsDigit(text[i])
        THEN LET p == CHOOSE i \in dots : TRUE
                 whole == NatValue(SubSeq(text, 1, p - 1), p - 1)
                 frac == SubSeq(text, p + 1, Len(text))
             IN  Returned(100 * whole
                          + (IF Len(frac) = 0 THEN 0
                             ELSE IF Len(frac) = 1 THEN 10 * DigitValue(frac[1])
                             ELSE 10 * DigitValue(frac[1]) + DigitValue(frac[2])))
        ELSE Raised("ValueError")

\* _build_networkx_graph: one undirected edge str(subj) - str(obj) for each
\* statement whose object is a URIRef; nodes in the order they are added.
_build_networkx_graph(g) ==
    LET linked == SelectSeq(g, LAMBDA t : t[3].k = "uri")
    IN  [nodes |-> Unique(Flatten([i \in 1..Len(linked) |->
                       <<Str(linked[i][1]), Str(linked[i][3])>>])),
         edges |-> {{Str(linked[i][1]), Str(linked[i][3])} : i \in 1..Len(linked)}]

\* Degree of a node of an nx.Graph: a self-loop counts twice.
Degree(nx, n) ==
    Cardinality({e \in nx.edges : n \in e /\ e # {n}})
    + 2 * Cardinality({e \in nx.edges : e = {n}})

\* nx.degree_centrality: degree / (N - 1), written num/den; 1 for every node
\* of a graph of at most one node.
degree_centrality(nx) ==
    [i \in 1..Len(nx.nodes) |->
        IF Len(nx.nodes) <= 1
        THEN [node |-> nx.nodes[i], num |-> 1, den |-> 1]
        ELSE [node |-> nx.nodes[i], num |-> Degree(nx, nx.nodes[i]),
              den |-> Len(nx.nodes) - 1]]

\* The names the statements with predicate p point to, unnamed ones dropped.
UsedNames(g, p) ==
    LET uses == SelectSeq(g, LAMBDA t : t[2] = p)
        named == [i \in 1..Len(uses) |-> _get_entity_name(g, uses[i][3])]
    IN  SelectSeq(named, LAMBDA name : name # <<>>)

\* The scores float() accepts, in store order.
CollectedScores(g) ==
    LET found == SelectSeq(g, LAMBDA t : t[2] = REPRO("reproducibilityScore"))
        parsed == [i \in 1..Len(found) |-> float(Str(found[i][3]))]
        good == SelectSeq(parsed, LAMBDA r : r.raised = "none")
    IN  [i \in 1..Len(good) |-> good[i].value]

\* A variant that takes the first entities in the order the graph lists them.
top_entities_unsorted(nx) == SliceTo(degree_centrality(nx), TopN)

\* sorted(centrality.items(), key=lambda x: x[1], reverse=True)[:10]
top_entities(nx) ==
    SliceTo(SortedDesc(degree_centrality(nx), LAMBDA c : c.num), TopN)

analyze_graph_patterns(g, nx) ==
    LET typed == SelectSeq(g, LAMBDA t : t[2] = RDF("type"))
        other == SelectSeq(g, LAMBDA t : t[2] # RDF("type"))
    IN  [entity_counts |->
             defaultdict(Tally([i \in 1..Len(typed) |-> Str(typed[i][3])])),
         relationship_counts |->
             defaultdict(Tally([i \in 1..Len(other) |-> Str(other[i][2])])),
         tool_usage |-> defaultdict(Tally(UsedNames(g, SCIENTIFIC("usesTool")))),
         dataset_usage |-> defaultdict(Tally(UsedNames(g, SCIENTIFIC("usesDataset")))),
         author_collaborations |-> defaultdict(<<>>),
         reproducibility_scores |-> CollectedScores(g),
         highly_connected_entities |->
             IF nx.nodes # <<>> THEN top_entities(nx) ELSE <<>>,
         research_gaps |-> <<>>]

\* d.most_common(n): a method of collections.Counter; any other dict class
\* has no such attribute.
most_common(d, n) ==
    IF d.class = "Counter"
    THEN Returned(SliceTo(SortedDesc(d.items, LAMBDA it : it.count), n))
    ELSE Raised("AttributeError")

\* Papers using both tools: a statement counts for tool2 only when its name
\* is not tool1 (elif).
_count_combined_tool_usage(g, tool1, tool2) ==
    LET uses == SelectSeq(g, LAMBDA t : t[2] = SCIENTIFIC("usesTool"))
        papers_with_tool1 ==
            {uses[i][1] : i \in {j \in 1..Len(uses) :
                                    _get_entity_name(g, uses[j][3]) = tool1}}
        papers_with_tool2 ==
            {uses[i][1] : i \in {j \in 1..Len(uses) :
                                    /\ _get_entity_name(g, uses[j][3]) # tool1
                                    /\ _get_entity_name(g, uses[j][3]) = tool2}}
    IN  Cardinality(papers_with_tool1 \cap papers_with_tool2)

\* Lines 128-138: the pairs of popular tools no paper uses together.
ToolCombinations(g, popular) ==
    Flatten([i \in 1..Len(popular) |->
        Flatten([d \in 1..(Len(popular) - i) |->
            IF _count_combined_tool_usage(g, popular[i], popular[i + d]) = 0
            THEN <<ToolCombinationOpp(popular[i], popular[i + d])>>
            ELSE <<>>])])

\* Lines 141-148: the first five datasets used exactly once.
DatasetReuses(dataset_usage) ==
    LET underused_datasets == SelectSeq(dataset_usage.items, LAMBDA it : it.count = 1)
        limited == SliceTo(underused_datasets, ReuseLimit)
    IN  [i \in 1..Len(limited) |-> DatasetReuseOpp(limited[i].key)]

\* Lines 151-159: a mean below 0.7 (70 hundredths).
ReproImprovements(scores) ==
    IF scores # <<>> /\ Sum(scores) < 70 * Len(scores)
    THEN <<ReproImprovementOpp([sum |-> Sum(scores), count |-> Len(scores)])>>
    ELSE <<>>

find_research_opportunities(g, an) ==
    LET top == most_common(an.tool_usage, TopN)
    IN  IF top.raised # "none" THEN Raised(top.raised)
        ELSE Returned(ToolCombinations(g, [i \in 1..Len(top.value) |-> top.value[i].key])
                      \o DatasetReuses(an.dataset_usage)
                      \o ReproImprovements(an.reproducibility_scores))

\* _analyze_feasibility: the three buckets; a hypothesis without the field
\* counts as medium, one with another value is not counted.
_analyze_feasibility(hyps) ==
    [b \in {"high", "medium", "low"} |->
        Cardinality({i \in 1..Len(hyps) : Get(hyps[i], "feasibility", "medium") = b})]

\* A hypothesis that is a JSON object; a character of a JSON string has no
\* .get.
IsDict(h) == "char" \notin DOMAIN h

\* Lines 372-392: the report dict, its values evaluated in the order written.
\* A mean is written sum/count; novelty scores are in tenths.
AssembleReport(g, an, opps, hyps, graph_file_name, focus_area, now) ==
    LET popular_tools == most_common(an.tool_usage, TopN)
        popular_datasets == most_common(an.dataset_usage, TopN)
    IN  IF popular_tools.raised # "none" THEN Raised(popular_tools.raised)
        ELSE IF popular_datasets.raised # "none" THEN Raised(popular_datasets.raised)
        ELSE IF \E i \in 1..Len(hyps) : ~IsDict(hyps[i]) THEN Raised("AttributeError")
        ELSE Returned(
            [generation_timestamp |-> now,
             source_graph |-> graph_file_name,
             focus_area |-> focus_area,
             graph_analysis |->
                 [total_triples |-> Len(g),
                  entity_counts |-> an.entity_counts.items,
                  popular_tools |-> popular_tools.value,
                  popular_datasets |-> popular_datasets.value,
                  avg_reproducibility_score |->
                      IF an.reproducibility_scores # <<>>
                      THEN [sum |-> Sum(an.reproducibility_scores),
                            count |-> Len(an.reproducibility_scores)]
                      ELSE [sum |-> 0, count |-> 0]],      \* None
             research_opportunities |-> opps,
             generated_hypotheses |-> hyps,
             summary |->
                 [total_hypotheses |-> Len(hyps),
                  avg_novelty_score |->
                      IF hyps # <<>>
                      THEN [sum |-> Sum([i \in 1..Len(hyps) |->
                                            Get(hyps[i], "novelty_score", 0)]),
                            count |-> Len(hyps)]
                      ELSE [sum |-> 0, count |-> 1],
                  feasibility_distribution |-> _analyze_feasibility(hyps)]])

\* generate_research_report on a graph file that parsed into g: analysis,
\* opportunities, hypotheses, report; an exception of a step leaves the call.
generate_research_report(g, key, m, resp, n, graph_file_name, focus_area, now) ==
    LET an == analyze_graph_patterns(g, _build_networkx_graph(g))
        opps == find_research_opportunities(g, an)
    IN  IF opps.raised # "none" THEN Raised(opps.raised)
        ELSE LET hyps == generate_hypotheses_with_llm(key, m, resp, opps.value, n)
             IN  IF hyps.raised # "none" THEN Raised(hyps.raised)
                 ELSE AssembleReport(g, an, opps.value, hyps.value,
                                     graph_file_name, focus_area, now)

\* ---- inputs of the analyzer: graphs that ingestion produces
\* What one paper uses.
PaperShapes ==
    {[tools |-> <<>>, datasets |-> <<>>],
     [tools |-> <<[name |-> AlphaName]>>, datasets |-> <<[name |-> IrisName]>>],
     [tools |-> <<[name |-> BetaName]>>, datasets |-> <<>>],
     [tools |-> <<[name |-> AlphaName], [name |-> GammaName]>>,
      datasets |-> <<[name |-> IrisName]>>],
     [tools |-> <<[name |-> AlphaName], [name |-> BetaName]>>, datasets |-> <<>>],
     [tools |-> <<[name |-> GammaName], [name |-> BetaName]>>, datasets |-> <<>>]}

\* The metadata record of the i-th paper.
ShapedPaper(i, shape) ==
    [source_file |-> <<"p.md">>, title |-> <<"P", Digit(i)>>,
     tools |-> shape.tools, datasets |-> shape.datasets]

RECURSIVE IngestFrom(_, _, _)
IngestFrom(g, shapes, i) ==
    IF i > Len(shapes) THEN g
    ELSE Only({IngestFrom(x, shapes, i + 1) :
                  x \in {add_paper_metadata(g, ShapedPaper(i, shapes[i]), <<"uuid-1">>).graph}})

\* The store after add_paper_metadata of up to MaxPapers papers, and after
\* add_reproducibility_assessment of at most one assessment.
PaperGraphs == {IngestFrom(<<>>, shapes, 1) : shapes \in SeqsUpTo(PaperShapes, MaxPapers)}

IngestedGraphs ==
    PaperGraphs
    \cup {add_reproducibility_assessment(g, a, NoneTerm, 0).graph :
             g \in PaperGraphs, a \in AssessmentInputs}

\* A graph file: one that graph.parse cannot read, or the statements of an
\* ingested graph.
GraphFiles == {NoFile} \cup {FileOf(g) : g \in IngestedGraphs}

(***************************************************************************)
(* Template-based generator (hypothesis_generator/main.py), the variant    *)
(* the backend and the pipeline import                                     *)
(***************************************************************************)
\* Bounds: hypotheses asked of the template-based generator, and the two
\* ends of random.randint(10, 30).
MaxTemplated == 2
ImprovementLow == 10
ImprovementHigh == 30

\* Tokens that are one character; every other token of a graph text is a
\* piece of at least four characters.
OneChar ==
    {"a", "b", "c", "d", "e", "f", "g", "h", "i", "j", "k", "l", "m", "n", "o",
     "p", "q", "r", "s", "t", "u", "v", "w", "x", "y", "z", "A", "B", "C", "D",
     "E", "F", "G", "H", "I", "J", "K", "L", "M", "N", "O", "P", "Q", "R", "S",
     "T", "U", "V", "W", "X", "Y", "Z", "0", "1", "2", "3", "4", "5", "6", "7",
     "8", "9", " ", "_", "%", "/", ":", ".", "-", "#"}

\* e and len(e) > 3
LongerThanThree(text) == Len(text) > 3 \/ \E i \in 1..Len(text) : text[i] \notin OneChar

\* "<word>" in text.lower(), for the words _extract_entities looks for: the
\* tokens of graph texts that contain the word.
TokensWith(word) ==
    CASE word = "papers.org" -> {PapersBase[1]}
      [] word = "authors.org" -> {AuthorsBase[1]}
      [] word = "tools.org" -> {ToolsBase[1]}
      [] word = "datasets.org" -> {DatasetsBase[1]}
      [] word = "name" -> {"name"}
      [] word = "keywords" -> {"keywords", KeywordsBase[1]}
      [] word = "methodology" -> {"usesMethodology"}
      [] word = "results" -> {"hasResults", ResultsBase[1]}

Mentions(text, word) == \E i \in 1..Len(text) : text[i] \in TokensWith(word)

\* _load_graph: a .json file is read with json.load, a .ttl file is parsed
\* with rdflib (without rdflib: []), any other suffix gives [].
_load_graph(file) ==
    IF file.suffix = ".json"
    THEN IF file.outcome = "ok" THEN Returned(file.data) ELSE Raised("JSONDecodeError")
    ELSE IF file.suffix = ".ttl"
    THEN IF file.outcome = "ok" THEN Returned(file.data)
         ELSE IF file.outcome = "no_rdflib" THEN Returned(<<>>)
         ELSE Raised("ParserError")
    ELSE Returned(<<>>)

\* One list of _extract_entities after list(set(...)) and the length filter:
\* the order of a set is not fixed, so the list is kept as a set.
Cleaned(texts) == {e \in texts : e # <<>> /\ LongerThanThree(e)}

\* _extract_entities: subjects by the namespace they are in, objects by the
\* predicate that leads to them.
_extract_entities(data) ==
    LET T == Range(data)
        under(word) == {t \in T : Mentions(t.subject, word)}
        \* branches of the first if/elif chain, in order
        papers == {t.subject : t \in under("papers.org")}
        authors == {t.subject : t \in under("authors.org") \ under("papers.org")}
        toolSubjects == {t.subject : t \in under("tools.org")
                            \ (under("papers.org") \cup under("authors.org"))}
        datasetSubjects == {t.subject : t \in under("datasets.org")
                               \ (under("papers.org") \cup under("authors.org")
                                  \cup under("tools.org"))}
        \* branches of the second if/elif chain, in order
        named == {t \in T : Mentions(t.predicate, "name")}
        keyed == {t \in T \ named : Mentions(t.predicate, "keywords")}
        method == {t \in T \ (named \cup keyed) : Mentions(t.predicate, "methodology")}
        result == {t \in T \ (named \cup keyed \cup method) : Mentions(t.predicate, "results")}
    IN  [papers |-> Cleaned(papers),
         authors |-> Cleaned(authors),
         tools |-> Cleaned(toolSubjects
                           \cup {t.object : t \in named \cap under("tools.org")}),
         datasets |-> Cleaned(datasetSubjects
                              \cup {t.object : t \in {u \in named \cap under("datasets.org") :
                                                         ~Mentions(u.subject, "tools.org")}}),
         methods |-> Cleaned({t.object : t \in method}),
         results |-> Cleaned({t.object : t \in result}),
         keywords |-> Cleaned({t.object : t \in keyed})]

\* random.choice(items) if items else default: the texts it may give.
ChoiceOr(items, default) == IF items # {} THEN items ELSE {default}

\* focus_area or "scientific research"
Domain(focus_area) == IF focus_area # <<>> THEN focus_area ELSE <<"scientific research">>

\* _fill_template on the k-th template: every record the random choices can
\* give.  Each string field draws its own tools, dataset, method and number;
\* novelty_score is kept in tenths.
_fill_template(k, entities, focus_area) ==
    LET tool1s == ChoiceOr(entities.tools, <<"AI method">>)
        tool2s == ChoiceOr(entities.tools, <<"statistical method">>)
        sets == ChoiceOr(entities.datasets, <<"scientific dataset">>)
        ways == ChoiceOr(entities.methods, <<"novel approach">>)
        defaults == [required_resources |-> << <<"computational resources">>,
                                               <<"domain expertise">> >>,
                     expected_impact |-> "Advance understanding in the field"]
    IN  IF k = 1 THEN
            {[hypothesis |-> <<"Combining ">> \o t1 \o <<" with ">> \o t2
                              \o <<" could improve ">> \o Domain(focus_area)
                              \o <<" analysis by ">> \o NatText(n) \o <<"%">>,
              rationale |-> "Both tools have complementary strengths that could address current limitations",
              methodology |-> <<"Develop integrated pipeline and benchmark against existing methods">>,
              feasibility |-> "medium", novelty_score |-> 7,
              required_resources |-> defaults.required_resources,
              expected_impact |-> defaults.expected_impact] :
                t1 \in tool1s, t2 \in tool2s, n \in {ImprovementLow, ImprovementHigh}}
        ELSE IF k = 2 THEN
            {[hypothesis |-> <<"Applying ">> \o m1 \o <<" to ">> \o d1
                              \o <<" could reveal new insights about ">>
                              \o Domain(focus_area),
              rationale |-> "This combination has not been extensively explored in the literature",
              methodology |-> <<"Implement ">> \o m2 \o <<" and analyze ">> \o d2
                               \o <<" with statistical validation">>,
              feasibility |-> "high", novelty_score |-> 6,
              required_resources |-> defaults.required_resources,
              expected_impact |-> defaults.expected_impact] :
                m1 \in ways, m2 \in ways, d1 \in sets, d2 \in sets}
        ELSE
            {[hypothesis |-> <<"Multi-modal approach using ">> \o t1 \o <<" and ">> \o t2
                              \o <<" could enhance ">> \o Domain(focus_area)
                              \o <<" prediction accuracy">>,
              rationale |-> "Different data modalities provide complementary information",
              methodology |-> <<"Design fusion architecture and evaluate on benchmark datasets">>,
              feasibility |-> "medium", novelty_score |-> 8,
              required_resources |-> defaults.required_resources,
              expected_impact |-> defaults.expected_impact] :
                t1 \in tool1s, t2 \in tool2s}

\* Every record one pass of the loop of _generate_fallback_hypotheses can
\* append: random.choice(templates), then _fill_template.
TemplateHypotheses(entities, focus_area) ==
    UNION {_fill_template(k, entities, focus_area) : k \in 1..3}

\* _generate_fallback_hypotheses: for i in range(num_hypotheses), one filled
\* template each; the lists the random choices can give.
_generate_fallback_hypotheses(entities, n, focus_area) ==
    [1..(IF n > 0 THEN n ELSE 0) -> TemplateHypotheses(entities, focus_area)]

\* _generate_with_ai: a list the backend answered is returned as it is, any
\* other JSON value is wrapped in a list; text that is no JSON, and any
\* exception, give the template hypotheses.
_generate_with_ai(resp, entities, n, focus_area) ==
    IF resp.kind = "json_array" THEN {resp.items}
    ELSE IF resp.kind \in {"json_object", "json_number", "json_string"} THEN {<<resp>>}
    ELSE _generate_fallback_hypotheses(entities, n, focus_area)

_create_graph_summary(entities) ==
    [total_papers |-> Cardinality(entities.papers),
     total_authors |-> Cardinality(entities.authors),
     total_tools |-> Cardinality(entities.tools),
     total_datasets |-> Cardinality(entities.datasets),
     total_keywords |-> Cardinality(entities.keywords)]

_identify_research_directions(entities) ==
    (IF entities.tools # {} THEN <<"Tool integration and comparison studies">> ELSE <<>>)
    \o (IF entities.datasets # {}
        THEN <<"Cross-dataset validation and generalization">> ELSE <<>>)
    \o (IF entities.methods # {}
        THEN <<"Methodological improvements and novel approaches">> ELSE <<>>)
    \o <<"Reproducibility and replication studies",
         "Interdisciplinary collaboration opportunities",
         "Scalability and efficiency improvements">>

_identify_knowledge_gaps(entities) ==
    (IF entities.datasets = {}
     THEN <<"Limited dataset availability or diversity">> ELSE <<>>)
    \o (IF entities.tools = {} THEN <<"Lack of specialized tools or software">> ELSE <<>>)
    \o <<"Need for standardized evaluation metrics", "Limited cross-domain validation",
         "Insufficient long-term studies", "Gaps in theoretical understanding">>

\* The one hypothesis _create_fallback_report repeats.
FallbackHypothesis ==
    [hypothesis |-> <<"Novel AI approaches could improve scientific reproducibility assessment">>,
     rationale |-> "Current manual assessment methods are time-consuming and subjective",
     methodology |-> <<"Develop automated assessment tools using machine learning">>,
     required_resources |-> << <<"machine learning expertise">>,
                               <<"scientific paper corpus">> >>,
     expected_impact |-> "Faster and more consistent reproducibility evaluation",
     feasibility |-> "high", novelty_score |-> 7]

\* _create_fallback_report: fallback_hypotheses * num_hypotheses is the empty
\* list for a count below 1, while total_hypotheses is the count itself.
_create_fallback_report(n, focus_area) ==
    [generated_hypotheses |-> [i \in 1..(IF n > 0 THEN n ELSE 0) |-> FallbackHypothesis],
     graph_summary |-> [total_entities |-> 0],
     focus_area |-> focus_area,
     generation_method |-> "Fallback",
     total_hypotheses |-> n,
     research_directions |-> <<"General scientific research">>,
     knowledge_gaps |-> <<"Limited data available for analysis">>]

\* generate_research_report of this variant: the reports it can return.  An
\* exception of any step inside the try is answered with the fallback report.
generate_research_report_templated(file, key, resp, n, focus_area) ==
    LET loaded == _load_graph(file)
    IN  IF loaded.raised # "none" THEN {_create_fallback_report(n, focus_area)}
        ELSE LET entities == _extract_entities(loaded.value)
             IN  {[generated_hypotheses |-> hyps,
                   graph_summary |-> _create_graph_summary(entities),
                   focus_area |-> focus_area,
                   generation_method |-> IF key THEN "AI" ELSE "Template-based",
                   total_hypotheses |-> Len(hyps),
                   research_directions |-> _identify_research_directions(entities),
                   knowledge_gaps |-> _identify_knowledge_gaps(entities)] :
                     hyps \in (IF key
                               THEN _generate_with_ai(resp, entities, n, focus_area)
                               ELSE _generate_fallback_hypotheses(entities, n, focus_area))}

\* ---- inputs of the template-based generator
\* A graph of one paper with one tool and one dataset, as string triples.
OnePaperData ==
    ExportGraphData(add_paper_metadata(<<>>,
        ShapedPaper(1, [tools |-> <<[name |-> AlphaName]>>,
                        datasets |-> <<[name |-> IrisName]>>]), <<"uuid-1">>).graph)

\* Graph files: readable ones, ones that cannot be read or parsed, a Turtle
\* file on a machine without rdflib, a file of another suffix.
TemplatedFiles ==
    {[suffix |-> ".json", outcome |-> "ok", data |-> OnePaperData],
     [suffix |-> ".json", outcome |-> "ok", data |-> <<>>],
     [suffix |-> ".json", outcome |-> "error", data |-> <<>>],
     [suffix |-> ".ttl", outcome |-> "ok", data |-> OnePaperData],
     [suffix |-> ".ttl", outcome |-> "error", data |-> <<>>],
     [suffix |-> ".ttl", outcome |-> "no_rdflib", data |-> <<>>],
     [suffix |-> ".txt", outcome |-> "ok", data |-> OnePaperData]}

\* What the Gemini call of _generate_with_ai ends with.
TemplatedBackends ==
    {[kind |-> "raise", exc |-> "ImportError"], [kind |-> "not_json"],
     [kind |-> "json_object"], [kind |-> "json_string", items |-> <<[char |-> "h"]>>]}
    \cup {[kind |-> "json_array", items |-> it] :
             it \in SeqsUpTo(BackendRecords, MaxBackendItems)}

FocusAreas == {<<>>, <<"biology">>}

(***************************************************************************)
(* Pipeline orchestrator (pipeline.py)                                     *)
(***************************************************************************)
\* A text that is None or empty is written <<>>: the pipeline only tests
\* paper_path and repo_url for truth.
Truthy(text) == text # <<>>

\* self.work_dir / name
PathIn(work_dir, name) == work_dir \o <<"/", name>>

\* dict[key] = value on a dict written as a function.
Put(d, key, value) == (key :> value) @@ d

\* The steps in the order run_complete_pipeline names them, the file each
\* one writes into the work directory and the key it is returned under.
PipelineSteps ==
    <<"extract_manuscript_metadata", "assess_reproducibility",
      "build_knowledge_graph", "generate_hypotheses", "create_summary_report">>

OutputName(step) ==
    CASE step = "extract_manuscript_metadata" -> "metadata.json"
      [] step = "assess_reproducibility" -> "reproducibility_report.json"
      [] step = "build_knowledge_graph" -> "knowledge_graph.ttl"
      [] step = "generate_hypotheses" -> "hypotheses.json"
      [] step = "create_summary_report" -> "pipeline_summary.json"

ResultKey(step) ==
    CASE step = "extract_manuscript_metadata" -> "metadata_file"
      [] step = "assess_reproducibility" -> "reproducibility_file"
      [] step = "build_knowledge_graph" -> "graph_file"
      [] step = "generate_hypotheses" -> "hypotheses_file"
      [] step = "create_summary_report" -> "summary_file"

\* What a step leaves in its output file: the inputs it was run on.
OutputOf(run, step) ==
    CASE step = "extract_manuscript_metadata" -> [input |-> run.paper_path]
      [] step = "assess_reproducibility" -> [repo |-> run.repo_url]
      [] step = "build_knowledge_graph" ->
             [metadata |-> Get(run.results, "metadata_file", <<>>),
              reproducibility |-> Get(run.results, "reproducibility_file", <<>>)]
      [] step = "generate_hypotheses" -> [graph |-> run.results["graph_file"]]
      [] step = "create_summary_report" -> [output_files |-> DOMAIN run.results]

\* The exception a failing step leaves run_complete_pipeline with: the
\* RuntimeError raised for a plugin that exits with an error, the OSError of
\* writing the summary.
FailureOf(step) == IF step = "create_summary_report" THEN "OSError" ELSE "RuntimeError"

\* A call of run_complete_pipeline that has just been entered.
EnterPipeline(work_dir, paper_path, repo_url) ==
    [work_dir |-> work_dir, paper_path |-> paper_path, repo_url |-> repo_url,
     at |-> "check", results |-> <<>>, started |-> <<>>, written |-> <<>>,
     raised |-> "none"]

\* Whether the call asks for the step.
Requested(run, step) ==
    CASE step = "extract_manuscript_metadata" -> Truthy(run.paper_path)
      [] step = "assess_reproducibility" -> Truthy(run.repo_url)
      [] OTHER -> TRUE

\* Where the call goes after the step.
After(step) ==
    CASE step = "extract_manuscript_metadata" -> "assess_reproducibility"
      [] step = "assess_reproducibility" -> "build_knowledge_graph"
      [] step = "build_knowledge_graph" -> "generate_hypotheses"
      [] step = "generate_hypotheses" -> "create_summary_report"
      [] step = "create_summary_report" -> "returned"

\* A variant in which the failure of a step is only logged.
RunStep_continuing(run, ok) ==
    LET step == run.at
    IN  IF ~Requested(run, step) THEN [run EXCEPT !.at = After(step)]
        ELSE IF ok
        THEN [run EXCEPT !.at = After(step),
                         !.started = Append(@, step),
                         !.results = Put(@, ResultKey(step),
                                         PathIn(run.work_dir, OutputName(step))),
                         !.written = Put(@, PathIn(run.work_dir, OutputName(step)),
                                         OutputOf(run, step))]
        ELSE [run EXCEPT !.at = After(step), !.started = Append(@, step)]

\* One step of run_complete_pipeline (lines 184-218): skipped when not
\* asked for; otherwise the plugin runs, and either its output path enters
\* results or the exception leaves the call.
RunStep(run, ok) ==
    LET step == run.at
    IN  IF ~Requested(run, step) THEN [run EXCEPT !.at = After(step)]
        ELSE IF ok
        THEN [run EXCEPT !.at = After(step),
                         !.started = Append(@, step),
                         !.results = Put(@, ResultKey(step),
                                         PathIn(run.work_dir, OutputName(step))),
                         !.written = Put(@, PathIn(run.work_dir, OutputName(step)),
                                         OutputOf(run, step))]
        ELSE [run EXCEPT !.at = "raised", !.started = Append(@, step),
                         !.raised = FailureOf(step)]

\* Lines 180-181: neither a paper nor a repository.
CheckInputs(run) ==
    IF ~Truthy(run.paper_path) /\ ~Truthy(run.repo_url)
    THEN [run EXCEPT !.at = "raised", !.raised = "ValueError"]
    ELSE [run EXCEPT !.at = "extract_manuscript_metadata"]

\* The call run to its end, oks telling which plugins succeed.
RECURSIVE RunFrom(_, _)
RunFrom(run, oks) ==
    IF run.at \in {"returned", "raised"} THEN run
    ELSE IF run.at = "check"
    THEN Only({RunFrom(x, oks) : x \in {CheckInputs(run)}})
    ELSE Only({RunFrom(x, oks) : x \in {RunStep(run, oks[run.at])}})

run_complete_pipeline(work_dir, paper_path, repo_url, oks) ==
    RunFrom(EnterPipeline(work_dir, paper_path, repo_url), oks)

\* Which plugins succeed: all of them, or all but one (the steps after a
\* failing one never run).
StepOutcomes ==
    {[step \in Range(PipelineSteps) |-> step # failing] :
        failing \in Range(PipelineSteps) \cup {"none"}}

(***************************************************************************)
(* Analysis jobs (backend/main.py)                                         *)
(***************************************************************************)
\* Bound: jobs created on one server.
MaxJobs == 2

\* str(uuid.uuid4()) of different calls.
JobNames == <<"job-1", "job-2", "job-3", "job-4">>
JobIds == {JobNames[i] : i \in 1..MaxJobs}

\* A variant in which every job works in one directory.
output_dir_shared(job_id) == <<"analysis_results/", "latest">>

\* Path(f"analysis_results/{job_id}")
output_dir(job_id) == <<"analysis_results/", job_id>>

\* analyze_paper, lines 125-131: the entry of a new job.
NewJob(req) ==
    [status |-> "pending", progress |-> 0, message |-> "Job queued for processing",
     request |-> req]

\* Lines 299-302.
Starting(job) ==
    [job EXCEPT !.status = "processing", !.progress = 10,
                !.message = "Starting analysis..."]

\* Lines 312-313 and 325-326: progress while processing.
Progressing(job, percent, text) ==
    [job EXCEPT !.progress = percent, !.message = text]

\* Lines 329-382: what is read back from the files the pipeline returned,
\* each only if its key is in results and the file exists.
ResultNames ==
    [metadata |-> "metadata_file", reproducibility |-> "reproducibility_file",
     hypotheses |-> "hypotheses_file", graph_data |-> "graph_file"]

structured_results(results, files) ==
    [name \in {n \in DOMAIN ResultNames :
                  /\ ResultNames[n] \in DOMAIN results
                  /\ results[ResultNames[n]] \in DOMAIN files} |->
        files[results[ResultNames[name]]]]

\* A variant that marks the job completed before its results are attached.
Completed_without_results(job, structured) ==
    [job EXCEPT !.status = "completed", !.progress = 100,
                !.message = "Analysis completed successfully"]

\* Lines 385-389.
Completed(job, structured) ==
    Put([job EXCEPT !.status = "completed", !.progress = 100,
                    !.message = "Analysis completed successfully"],
        "results", structured)

\* A variant whose except clause only logs the error.
Failed_logged_only(job, e) == job

\* Lines 391-396: except Exception as e.
Failed(job, e) ==
    Put([job EXCEPT !.status = "failed", !.progress = 0,
                    !.message = <<"Analysis failed: ", e>>],
        "error", e)

\* Requests: a paper, a repository, both, neither.
JobRequests ==
    {[paper_url |-> p, repo_url |-> r] :
        p \in {<<>>, <<"p", ".md">>}, r \in {<<>>, RepoUrl1}}

(***************************************************************************)
(* Specifications.  Each component is checked on its own; the variables of *)
(* the other components rest at their idle values.                         *)
(***************************************************************************)
NoRequest == [called |-> FALSE]

TemplIdle ==
    /\ request = NoRequest
    /\ reply = Raised("not called")

FeasIdle ==
    /\ hypotheses = <<>>
    /\ distribution = Raised("not called")

AssessIdle ==
    /\ assessment = NoneTerm

PipeIdle ==
    /\ pipeline_run = [at |-> "idle"]

JobsIdle ==
    /\ processing_jobs = <<>>
    /\ task = <<>>
    /\ disk = <<>>

MintIdle ==
    /\ base = ToolsBase
    /\ nameA = <<>>
    /\ nameB = <<>>
    /\ uriA = NoneTerm
    /\ uriB = NoneTerm
    /\ minted = FALSE

SynthIdle ==
    /\ api_key = FALSE
    /\ model = <<"gemini", "-pro">>
    /\ backend = [kind |-> "not_json"]
    /\ opportunities = <<>>
    /\ num_hypotheses = 0
    /\ synthResult = Raised("not called")
    /\ synthDone = FALSE

BuilderIdle ==
    /\ graph = <<>>
    /\ bnodes = 0
    /\ given_paper_uri = NoneTerm
    /\ calls = 0
    /\ op = "none"
    /\ raised = "none"
    /\ paper_uri = NoneTerm
    /\ metadata = [source_file |-> <<>>]
    /\ emitted = <<>>
    /\ sizeBefore = 0

ExchIdle ==
    /\ report = NoFile
    /\ graph_data = <<>>
    /\ rebuilt = <<>>
    /\ stage = "idle"

AnIdle ==
    /\ graph_file = NoFile
    /\ store = <<>>
    /\ nx_graph = [nodes |-> <<>>, edges |-> {}]
    /\ analysis = Raised("not called")
    /\ mined = Raised("not called")
    /\ research_report = Raised("not called")
    /\ phase = "idle"

\* ---- SpecMint: create_uri on pairs of raw names
InitMint ==
    /\ base \in MintBases
    /\ nameA \in Names
    /\ nameB \in Names
    /\ uriA = NoneTerm
    /\ uriB = NoneTerm
    /\ minted = FALSE
    /\ SynthIdle /\ BuilderIdle /\ ExchIdle /\ AnIdle /\ TemplIdle /\ JobsIdle /\ PipeIdle /\ AssessIdle /\ FeasIdle

\* Two calls of create_uri in one namespace, one per raw name.
CreateUri ==
    /\ ~minted
    /\ uriA' = create_uri(base, nameA)
    /\ uriB' = create_uri(base, nameB)
    /\ minted' = TRUE
    /\ UNCHANGED <<jobVars, pipeVars, assessVars, feasVars, templVars, anVars, base, nameA, nameB, synthVars, builderVars, exchVars>>

NextMint == CreateUri

SpecMint == InitMint /\ [][NextMint]_vars

\* ---- SpecSynth: one call of generate_hypotheses_with_llm
InitSynth ==
    /\ api_key \in BOOLEAN
    /\ model \in ModelNames
    /\ backend \in BackendOutcomes
    /\ opportunities \in OppLists
    /\ num_hypotheses \in 0..MaxCount
    /\ synthResult = Raised("not called")
    /\ synthDone = FALSE
    /\ MintIdle /\ BuilderIdle /\ ExchIdle /\ AnIdle /\ TemplIdle /\ JobsIdle /\ PipeIdle /\ AssessIdle /\ FeasIdle

GenerateHypothesesWithLlm ==
    /\ ~synthDone
    /\ synthResult' = generate_hypotheses_with_llm(api_key, model, backend,
                                                   opportunities, num_hypotheses)
    /\ synthDone' = TRUE
    /\ UNCHANGED <<jobVars, pipeVars, assessVars, feasVars, templVars, anVars, api_key, model, backend, opportunities, num_hypotheses,
                   mintVars, builderVars, exchVars>>

NextSynth == GenerateHypothesesWithLlm

SpecSynth == InitSynth /\ [][NextSynth]_vars

\* ---- Spec: ingestion calls on one builder
Init ==
    /\ BuilderIdle
    /\ MintIdle /\ SynthIdle /\ ExchIdle /\ AnIdle /\ TemplIdle /\ JobsIdle /\ PipeIdle /\ AssessIdle /\ FeasIdle

\* A call the builder's owner makes leaves this trace: which call, what it
\* handed to graph.add, and the size of the store before.
Called(name, g, handed, exc) ==
    /\ graph' = g
    /\ op' = name
    /\ emitted' = handed
    /\ raised' = exc
    /\ sizeBefore' = total_triples(graph)
    /\ calls' = calls + 1

Ingest(md, uuid) ==
    LET r == add_paper_metadata(graph, md, uuid)
    IN  /\ Called("add_paper_metadata", r.graph, r.emitted, r.raised)
        /\ paper_uri' = IF r.raised = "none" THEN r.paper_uri ELSE paper_uri
        /\ metadata' = md
        /\ UNCHANGED <<jobVars, pipeVars, assessVars, feasVars, templVars, anVars, bnodes, given_paper_uri, mintVars, synthVars, exchVars>>

AddPaperMetadata ==
    /\ calls < MaxCalls
    /\ \E md \in MetadataInputs, uuid \in Uuids : Ingest(md, uuid)

AddAuthor ==
    /\ calls < MaxCalls
    /\ \E a \in AuthorInputs :
           Called("add_author", GraphAddAll(graph, add_author(a)), add_author(a), "none")
    /\ UNCHANGED <<jobVars, pipeVars, assessVars, feasVars, templVars, anVars, bnodes, given_paper_uri, paper_uri, metadata, mintVars, synthVars, exchVars>>

AddTool ==
    /\ calls < MaxCalls
    /\ \E t \in ToolInputs :
           Called("add_tool", GraphAddAll(graph, add_tool(t)), add_tool(t), "none")
    /\ UNCHANGED <<jobVars, pipeVars, assessVars, feasVars, templVars, anVars, bnodes, given_paper_uri, paper_uri, metadata, mintVars, synthVars, exchVars>>

AddDataset ==
    /\ calls < MaxCalls
    /\ \E d \in DatasetInputs :
           Called("add_dataset", GraphAddAll(graph, add_dataset(d)), add_dataset(d), "none")
    /\ UNCHANGED <<jobVars, pipeVars, assessVars, feasVars, templVars, anVars, bnodes, given_paper_uri, paper_uri, metadata, mintVars, synthVars, exchVars>>

AddReproducibilityAssessment ==
    /\ calls < MaxCalls
    /\ \E a \in AssessmentInputs, p \in {NoneTerm, paper_uri} :
           LET r == add_reproducibility_assessment(graph, a, p, bnodes)
           IN  /\ Called("add_reproducibility_assessment", r.graph, r.emitted, r.raised)
               /\ bnodes' = r.bnodes
               /\ given_paper_uri' = p
    /\ UNCHANGED <<jobVars, pipeVars, assessVars, feasVars, templVars, anVars, paper_uri, metadata, mintVars, synthVars, exchVars>>

Next ==
    \/ AddPaperMetadata
    \/ AddAuthor
    \/ AddTool
    \/ AddDataset
    \/ AddReproducibilityAssessment

Spec == Init /\ [][Next]_vars

\* ---- SpecPartial: add_paper_metadata on a fresh builder, for every subset
\* of the optional fields
InitPartial ==
    /\ metadata \in AllPartialMetadata
    /\ graph = <<>> /\ bnodes = 0 /\ given_paper_uri = NoneTerm /\ calls = 0 /\ op = "none" /\ raised = "none"
    /\ paper_uri = NoneTerm /\ emitted = <<>> /\ sizeBefore = 0
    /\ MintIdle /\ SynthIdle /\ ExchIdle /\ AnIdle /\ TemplIdle /\ JobsIdle /\ PipeIdle /\ AssessIdle /\ FeasIdle

IngestPartial ==
    /\ calls = 0
    /\ \E uuid \in Uuids : Ingest(metadata, uuid)

NextPartial == IngestPartial

SpecPartial == InitPartial /\ [][NextPartial]_vars

\* ---- SpecReingest: add_paper_metadata called again with the record it was
\* just given, on the same builder
IngestSame ==
    /\ calls < MaxCalls
    /\ \E uuid \in Uuids : Ingest(metadata, uuid)

NextReingest == IngestSame

SpecReingest == InitPartial /\ [][NextReingest]_vars

\* ---- SpecExchange: build-knowledge-graph followed by generate-hypotheses
ExchangeMetadata ==
    MetadataInputs \cup {m \in AllPartialMetadata : Cardinality(DOMAIN m) <= 3}

InitExchange ==
    /\ metadata \in ExchangeMetadata
    /\ report \in {NoFile} \cup {FileOf(a) : a \in AssessmentInputs}
    /\ graph_data = <<>> /\ rebuilt = <<>> /\ stage = "request"
    /\ graph = <<>> /\ bnodes = 0 /\ given_paper_uri = NoneTerm /\ calls = 0 /\ op = "none" /\ raised = "none"
    /\ paper_uri = NoneTerm /\ emitted = <<>> /\ sizeBefore = 0
    /\ MintIdle /\ SynthIdle /\ AnIdle /\ TemplIdle /\ JobsIdle /\ PipeIdle /\ AssessIdle /\ FeasIdle

\* POST /build-knowledge-graph: a fresh builder ingests the two records and
\* the store is returned as graph_data.
BuildKnowledgeGraph ==
    /\ stage = "request"
    /\ \E uuid \in Uuids :
           \E r \in {load_and_process_files(<<>>, FileOf(metadata), report, uuid, 0)} :
               /\ graph' = r.graph
               /\ bnodes' = r.bnodes
               /\ graph_data' = ExportGraphData(r.graph)
    /\ stage' = "built"
    /\ UNCHANGED <<jobVars, pipeVars, assessVars, feasVars, templVars, anVars, given_paper_uri, calls, op, raised, paper_uri, metadata, emitted, sizeBefore,
                   report, rebuilt, mintVars, synthVars>>

\* POST /generate-hypotheses with that graph_data: the graph is rebuilt.
GenerateHypothesesRebuild ==
    /\ stage = "built"
    /\ rebuilt' = RebuildGraph(graph_data)
    /\ stage' = "rebuilt"
    /\ UNCHANGED <<jobVars, pipeVars, assessVars, feasVars, templVars, anVars, builderVars, report, graph_data, mintVars, synthVars>>

NextExchange == BuildKnowledgeGraph \/ GenerateHypothesesRebuild

SpecExchange == InitExchange /\ [][NextExchange]_vars

\* ---- SpecAnalysis: a HypothesisGenerator loads a graph file and is asked
\* for patterns and opportunities, or for the whole report
InitAnalysis ==
    /\ graph_file = NoFile
    /\ store = <<>>
    /\ nx_graph = [nodes |-> <<>>, edges |-> {}]
    /\ analysis = Raised("not called")
    /\ mined = Raised("not called")
    /\ research_report = Raised("not called")
    /\ phase = "new"
    /\ MintIdle /\ SynthIdle /\ BuilderIdle /\ ExchIdle /\ TemplIdle /\ JobsIdle /\ PipeIdle /\ AssessIdle /\ FeasIdle

\* load_knowledge_graph: parse, then _build_networkx_graph; an exception of
\* the parse is raised again.
LoadKnowledgeGraph ==
    /\ phase = "new"
    /\ \E file \in GraphFiles :
           /\ graph_file' = file
           /\ IF file.exists
              THEN /\ store' = file.content
                   /\ nx_graph' = _build_networkx_graph(file.content)
                   /\ phase' = "loaded"
              ELSE /\ phase' = "load_failed"
                   /\ UNCHANGED <<store, nx_graph>>
    /\ UNCHANGED <<jobVars, pipeVars, assessVars, feasVars, templVars, analysis, mined, research_report,
                   mintVars, synthVars, builderVars, exchVars>>

\* A variant of the analysis that empties the store it has read.
AnalyzeGraphPatterns_consuming ==
    /\ phase = "loaded"
    /\ analysis' = Returned(analyze_graph_patterns(store, nx_graph))
    /\ phase' = "analyzed"
    /\ store' = <<>>
    /\ UNCHANGED <<jobVars, pipeVars, assessVars, feasVars, templVars, graph_file, nx_graph, mined, research_report,
                   mintVars, synthVars, builderVars, exchVars>>

AnalyzeGraphPatterns ==
    /\ phase = "loaded"
    /\ analysis' = Returned(analyze_graph_patterns(store, nx_graph))
    /\ phase' = "analyzed"
    /\ UNCHANGED <<jobVars, pipeVars, assessVars, feasVars, templVars, graph_file, store, nx_graph, mined, research_report,
                   mintVars, synthVars, builderVars, exchVars>>

FindResearchOpportunities ==
    /\ phase = "analyzed"
    /\ mined' = find_research_opportunities(store, analysis.value)
    /\ phase' = "mined"
    /\ UNCHANGED <<jobVars, pipeVars, assessVars, feasVars, templVars, graph_file, store, nx_graph, analysis, research_report,
                   mintVars, synthVars, builderVars, exchVars>>

\* generate_hypotheses_with_llm called on the generator after the analysis,
\* with opportunities the caller passes; without a key it is
\* _generate_rule_based_hypotheses.
GenerateHypotheses ==
    /\ phase \in {"analyzed", "mined"}
    /\ \E key \in BOOLEAN, n \in 0..MaxCount,
          opps \in {<<>>, <<ToolCombinationOpp(AlphaName, BetaName),
                            DatasetReuseOpp(IrisName)>>},
          resp \in {[kind |-> "not_json"],
                    [kind |-> "json_array", items |-> <<[hypothesis |-> <<"H2">>]>>]} :
           hypotheses' =
               generate_hypotheses_with_llm(key, <<"gemini", "-pro">>, resp, opps, n).value
    /\ phase' = "hypothesized"
    /\ UNCHANGED <<distribution, jobVars, pipeVars, assessVars, templVars, graph_file, store, nx_graph, analysis, mined,
                   research_report, mintVars, synthVars, builderVars, exchVars>>

\* generate_research_report on a fresh generator.
GenerateResearchReport ==
    /\ phase = "new"
    /\ \E file \in GraphFiles, key \in BOOLEAN, n \in 0..MaxCount,
          resp \in {[kind |-> "not_json"],
                    [kind |-> "json_array", items |-> <<>>]} :
           /\ graph_file' = file
           /\ IF file.exists
              THEN \E nx \in {_build_networkx_graph(file.content)} :
                   \E an \in {analyze_graph_patterns(file.content, nx)} :
                       /\ store' = file.content
                       /\ nx_graph' = nx
                       /\ analysis' = Returned(an)
                       /\ mined' = find_research_opportunities(file.content, an)
                       /\ research_report' =
                              generate_research_report(file.content, key,
                                  <<"gemini", "-pro">>, resp, n,
                                  <<"graph.ttl">>, <<>>, <<"now">>)
              ELSE /\ research_report' = Raised("ParserError")
                   /\ UNCHANGED <<store, nx_graph, analysis, mined>>
    /\ phase' = "reported"
    /\ UNCHANGED <<jobVars, pipeVars, assessVars, feasVars, templVars, mintVars, synthVars, builderVars, exchVars>>

NextAnalysis ==
    \/ LoadKnowledgeGraph
    \/ AnalyzeGraphPatterns
    \/ FindResearchOpportunities
    \/ GenerateHypotheses
    \/ GenerateResearchReport

SpecAnalysis == InitAnalysis /\ [][NextAnalysis]_vars

\* ---- SpecTemplated: generate_research_report of the template-based
\* generator, once, on a fresh generator
InitTemplated ==
    /\ TemplIdle /\ JobsIdle /\ PipeIdle /\ AssessIdle /\ FeasIdle
    /\ MintIdle /\ SynthIdle /\ BuilderIdle /\ ExchIdle /\ AnIdle

GenerateTemplatedReport ==
    /\ request = NoRequest
    /\ \E file \in TemplatedFiles, key \in BOOLEAN, resp \in TemplatedBackends,
          n \in -1..MaxTemplated, focus \in FocusAreas :
           /\ request' = [called |-> TRUE, graph_file |-> file, api_key |-> key,
                          backend |-> resp, num_hypotheses |-> n, focus_area |-> focus]
           /\ \E made \in generate_research_report_templated(file, key, resp, n, focus) :
                  reply' = Returned(made)
    /\ UNCHANGED <<jobVars, pipeVars, assessVars, feasVars, mintVars, synthVars, builderVars, exchVars, anVars>>

NextTemplated == GenerateTemplatedReport

SpecTemplated == InitTemplated /\ [][NextTemplated]_vars

\* ---- SpecReassess: add_reproducibility_assessment called again with the
\* record and the paper it was just given, on the same builder, for every
\* subset of the optional fields of an assessment
FullAssessment ==
    [assessment_date |-> <<"d">>, repository_url |-> RepoUrl1,
     assessment_timestamp |-> <<"2", "0", "2", "4">>, reproducibility_score |-> 40,
     repository_analysis |-> [has_readme |-> FALSE, has_dockerfile |-> TRUE],
     execution_results |-> [success_rate |-> 50],
     recommendations |-> << <<"add", " ", "README">>, <<"pin">> >>]

AllPartialAssessments ==
    {[f \in F \cup {"assessment_date"} |-> FullAssessment[f]] : F \in SUBSET AssessmentFields}

InitReassess ==
    /\ assessment \in AllPartialAssessments
    /\ given_paper_uri \in {NoneTerm, URIRef(<<"https://doi.org/", "10.1", "/", "x">>)}
    /\ graph = <<>> /\ bnodes = 0 /\ calls = 0 /\ op = "none" /\ raised = "none"
    /\ paper_uri = NoneTerm /\ metadata = [source_file |-> <<>>] /\ emitted = <<>>
    /\ sizeBefore = 0
    /\ MintIdle /\ SynthIdle /\ ExchIdle /\ AnIdle /\ TemplIdle /\ JobsIdle /\ PipeIdle /\ FeasIdle

AssessSame ==
    /\ calls < MaxCalls
    /\ \E r \in {add_reproducibility_assessment(graph, assessment, given_paper_uri, bnodes)} :
           /\ Called("add_reproducibility_assessment", r.graph, r.emitted, r.raised)
           /\ bnodes' = r.bnodes
    /\ UNCHANGED <<jobVars, pipeVars, assessVars, feasVars, templVars, anVars, given_paper_uri, paper_uri,
                   metadata, mintVars, synthVars, exchVars>>

NextReassess == AssessSame

SpecReassess == InitReassess /\ [][NextReassess]_vars

\* ---- SpecPipeline: one call of run_complete_pipeline, step by step; each
\* plugin may succeed or fail
PaperPaths == {<<>>, <<"p", ".md">>, <<"q", ".pdf">>}
RepoUrls == {<<>>, RepoUrl1, RepoUrl2}
WorkDirs == {<<"output">>, <<"analysis_results/", "j1">>}

InitPipeline ==
    /\ \E work_dir \in WorkDirs, paper_path \in PaperPaths, repo_url \in RepoUrls :
           pipeline_run = EnterPipeline(work_dir, paper_path, repo_url)
    /\ MintIdle /\ SynthIdle /\ BuilderIdle /\ ExchIdle /\ AnIdle /\ TemplIdle /\ JobsIdle
    /\ AssessIdle /\ FeasIdle

OthersStay ==
    UNCHANGED <<jobVars, assessVars, feasVars, templVars, mintVars, synthVars,
                builderVars, exchVars, anVars>>

CheckPipelineInputs ==
    /\ pipeline_run.at = "check"
    /\ pipeline_run' = CheckInputs(pipeline_run)
    /\ OthersStay

StepAt(step) ==
    /\ pipeline_run.at = step
    /\ \E ok \in BOOLEAN : pipeline_run' = RunStep(pipeline_run, ok)
    /\ OthersStay

ExtractManuscriptMetadata == StepAt("extract_manuscript_metadata")

AssessReproducibility == StepAt("assess_reproducibility")

BuildGraphStep == StepAt("build_knowledge_graph")

GenerateHypothesesStep == StepAt("generate_hypotheses")

CreateSummaryReport == StepAt("create_summary_report")

NextPipeline ==
    \/ CheckPipelineInputs
    \/ ExtractManuscriptMetadata
    \/ AssessReproducibility
    \/ BuildGraphStep
    \/ GenerateHypothesesStep
    \/ CreateSummaryReport

SpecPipeline == InitPipeline /\ [][NextPipeline]_vars

\* ---- SpecJobs: analyze-paper requests and their background tasks, the
\* tasks interleaved at the points where they update the job
InitJobs ==
    /\ processing_jobs = <<>>
    /\ task = [j \in JobIds |-> [at |-> "none"]]
    /\ disk = <<>>
    /\ MintIdle /\ SynthIdle /\ BuilderIdle /\ ExchIdle /\ AnIdle /\ TemplIdle
    /\ PipeIdle /\ AssessIdle /\ FeasIdle

JobsOnly ==
    UNCHANGED <<pipeVars, assessVars, feasVars, templVars, mintVars, synthVars,
                builderVars, exchVars, anVars>>

At(j, where) == task' = [task EXCEPT ![j] = [at |-> where]]

\* analyze_paper: a fresh job id, the entry, the task queued.
AnalyzePaper(j) ==
    /\ j \notin DOMAIN processing_jobs
    /\ \E req \in JobRequests : processing_jobs' = Put(processing_jobs, j, NewJob(req))
    /\ At(j, "queued")
    /\ UNCHANGED disk
    /\ JobsOnly

\* process_paper_analysis, lines 299-302.
StartTask(j) ==
    /\ task[j].at = "queued"
    /\ processing_jobs' = [processing_jobs EXCEPT ![j] = Starting(@)]
    /\ At(j, "started")
    /\ UNCHANGED disk
    /\ JobsOnly

\* Lines 304-313: the output directory and the pipeline object, whose
\* constructor raises FileNotFoundError when a plugin is missing.
PrepareTask(j) ==
    /\ task[j].at = "started"
    /\ disk' = Put(disk, output_dir(j), [directory |-> TRUE])
    /\ \E installed \in BOOLEAN :
           IF installed
           THEN /\ processing_jobs' =
                       [processing_jobs EXCEPT
                           ![j] = Progressing(@, 30, "Processing paper and repository...")]
                /\ At(j, "prepared")
           ELSE /\ processing_jobs' =
                       [processing_jobs EXCEPT ![j] = Failed(@, "FileNotFoundError")]
                /\ At(j, "done")
    /\ JobsOnly

\* Lines 316-326: the pipeline run in the job's directory on the job's
\* request; the files of the steps that succeeded are on disk either way.
RunPipelineTask(j) ==
    /\ task[j].at = "prepared"
    /\ \E oks \in StepOutcomes :
       \E r \in {run_complete_pipeline(output_dir(j),
                                       processing_jobs[j].request.paper_url,
                                       processing_jobs[j].request.repo_url, oks)} :
           /\ disk' = r.written @@ disk
           /\ IF r.raised = "none"
              THEN /\ processing_jobs' =
                          [processing_jobs EXCEPT
                              ![j] = Progressing(@, 80, "Finalizing results...")]
                   /\ task' = [task EXCEPT ![j] = [at |-> "ran", results |-> r.results]]
              ELSE /\ processing_jobs' =
                          [processing_jobs EXCEPT ![j] = Failed(@, r.raised)]
                   /\ At(j, "done")
    /\ JobsOnly

\* Lines 329-389: the results read back and the job completed; json.load
\* of a file that does not parse leaves the try block.
FinalizeTask(j) ==
    /\ task[j].at = "ran"
    /\ \E parses \in BOOLEAN :
           processing_jobs' =
               [processing_jobs EXCEPT
                   ![j] = IF parses
                          THEN Completed(@, structured_results(task[j].results, disk))
                          ELSE Failed(@, "JSONDecodeError")]
    /\ At(j, "done")
    /\ UNCHANGED disk
    /\ JobsOnly

\* download_results of a completed job: its results written to a file of
\* temp_downloads.
DownloadResults(j) ==
    /\ j \in DOMAIN processing_jobs
    /\ processing_jobs[j].status = "completed"
    /\ "results" \in DOMAIN processing_jobs[j]
    /\ <<"temp_downloads/", "results_", j, ".json">> \notin DOMAIN disk
    /\ disk' = Put(disk, <<"temp_downloads/", "results_", j, ".json">>,
                   processing_jobs[j].results)
    /\ UNCHANGED <<processing_jobs, task>>
    /\ JobsOnly

BackgroundTask(j) ==
    \/ StartTask(j)
    \/ PrepareTask(j)
    \/ RunPipelineTask(j)
    \/ FinalizeTask(j)

NextJobs ==
    \E j \in JobIds :
        \/ AnalyzePaper(j)
        \/ BackgroundTask(j)
        \/ DownloadResults(j)

SpecJobs == InitJobs /\ [][NextJobs]_vars

\* The server runs every background task it has queued.
SpecJobsFair == SpecJobs /\ \A j \in JobIds : WF_vars(BackgroundTask(j))

\* ---- SpecFeasibility: _analyze_feasibility applied once to a list of
\* hypotheses: complete ones of each feasibility, one with a value outside
\* the three, and one without the field
MaxHypotheses == 3

HypothesisSamples ==
    {[hypothesis |-> <<"H">>, feasibility |-> f, novelty_score |-> 5] :
        f \in {"high", "medium", "low", "unknown"}}
    \cup {[hypothesis |-> <<"H2">>]}

InitFeasibility ==
    /\ hypotheses \in SeqsUpTo(HypothesisSamples, MaxHypotheses)
    /\ distribution = Raised("not called")
    /\ MintIdle /\ SynthIdle /\ BuilderIdle /\ ExchIdle /\ AnIdle /\ TemplIdle /\ JobsIdle /\ PipeIdle /\ AssessIdle

AnalyzeFeasibility ==
    /\ distribution = Raised("not called")
    /\ distribution' = Returned(_analyze_feasibility(hypotheses))
    /\ UNCHANGED <<hypotheses, jobVars, pipeVars, assessVars, mintVars, synthVars, builderVars, exchVars, anVars, templVars>>

NextFeasibility == AnalyzeFeasibility

SpecFeasibility == InitFeasibility /\ [][NextFeasibility]_vars

(***************************************************************************)
(* Claims                                                                  *)
(***************************************************************************)
\* The backend was asked (a key is set and the model names a vendor).
BackendAsked ==
    api_key /\ \E v \in {"gpt", "claude", "gemini"} : ModelMentions(model, v)

\* The backend call or the parsing of its answer raised.
BackendFailed == backend.kind \in {"raise", "not_json"}

\* C1: generate_hypotheses_with_llm returns exactly `count` hypotheses for
\* every count >= 0 and every opportunity list.
C1_ExactlyCountHypotheses ==
    synthDone => (synthResult.raised = "none" /\ Len(synthResult.value) = num_hypotheses)

\* C2: with no API key, with a model name of no known vendor, or when the
\* backend call or the parsing raises, the call returns what the rule-based
\* path returns for the same opportunities and count, and raises nothing.
C2_BackendProblemFallsBack ==
    (synthDone /\ (~api_key \/ ~BackendAsked \/ BackendFailed))
        => (/\ synthResult.raised = "none"
            /\ synthResult = _generate_rule_based_hypotheses(opportunities, num_hypotheses))

\* C2 witness: a configured backend raised and rule-based hypotheses came back.
C2_Witness ==
    /\ synthDone
    /\ BackendAsked
    /\ backend.kind = "raise"
    /\ synthResult.raised = "none"
    /\ Len(synthResult.value) = 2
    /\ synthResult.value[1].feasibility \in {"medium", "high"}

\* C3: every hypothesis record returned, from the backend path or the
\* fallback path, carries all seven fields.
C3_AllSevenFields ==
    (synthDone /\ synthResult.raised = "none")
        => \A i \in 1..Len(synthResult.value) :
               DOMAIN synthResult.value[i] = HypothesisFields

\* C5: the statement store never holds two identical triples; every triple
\* an ingestion call handed to the store is in it once, so handing over a
\* triple that is already present does not change the size.
C5_NoDuplicateStatements ==
    /\ \A i, j \in 1..Len(graph) : graph[i] = graph[j] => i = j
    /\ total_triples(graph) = Cardinality(Range(graph))
    /\ Range(emitted) \subseteq Range(graph)

\* C5 witness: a second call handed over only triples that were already
\* there, and the size stayed what it was.
C5_Witness ==
    /\ calls = 2
    /\ Len(emitted) > 0
    /\ total_triples(graph) = sizeBefore
    /\ sizeBefore > 0

\* C7: add_paper_metadata does not raise, whatever subset of the optional
\* fields is absent.
C7_PartialMetadataNeverRaises ==
    op = "add_paper_metadata" => raised = "none"

\* A term without its datatype tag.
Untagged(t) == [k |-> t.k, v |-> t.v]

UntaggedTriples(g) ==
    {<<Untagged(g[i][1]), Untagged(g[i][2]), Untagged(g[i][3])>> : i \in 1..Len(g)}

\* C8: exporting the store as string triples and rebuilding a store from
\* them gives the same triple set: identifiers come back as the same
\* identifiers, literals as literals of the same value.
C8_ExchangeRoundTrip ==
    stage = "rebuilt" => UntaggedTriples(rebuilt) = UntaggedTriples(graph)

\* C9: names that differ only in the length of a run of whitespace get the
\* same identifier in the same namespace.
C9_WhitespaceRunsSameUri ==
    (minted /\ CollapseWs(nameA) = CollapseWs(nameB)) => uriA = uriB

\* C10: create_uri is injective within a namespace, up to the length of
\* whitespace runs: equal identifiers come only from such names.
C10_DistinctNamesDistinctUris ==
    (minted /\ uriA = uriB) => CollapseWs(nameA) = CollapseWs(nameB)

\* The names of the tools of the usage table, and whether some paper of the
\* store uses both of two tools.
ToolsSeen == {analysis.value.tool_usage.items[i].key :
                 i \in 1..Len(analysis.value.tool_usage.items)}

UsedTogether(a, b) ==
    \E i, j \in 1..Len(store) :
        /\ store[i][2] = SCIENTIFIC("usesTool")
        /\ store[j][2] = SCIENTIFIC("usesTool")
        /\ store[i][1] = store[j][1]
        /\ _get_entity_name(store, store[i][3]) = a
        /\ _get_entity_name(store, store[j][3]) = b

CombinationsFor(a, b) ==
    {i \in 1..Len(mined.value) :
        /\ mined.value[i].type = "tool_combination"
        /\ Range(mined.value[i].tools) = {a, b}}

\* C4: among the top-10 tools by usage, find_research_opportunities emits a
\* tool_combination opportunity for an unordered pair {A,B} exactly once
\* when no paper uses both, and none for a pair some paper uses together.
C4_ToolCombinationOncePerUnusedPair ==
    (phase = "mined" /\ Cardinality(ToolsSeen) \in 2..TopN)
        => /\ mined.raised = "none"
           /\ \A a, b \in ToolsSeen :
                  a # b =>
                      Cardinality(CombinationsFor(a, b))
                          = (IF UsedTogether(a, b) THEN 0 ELSE 1)

\* C6: on a store with zero statements analyze_graph_patterns,
\* find_research_opportunities, hypothesis synthesis and the assembly of
\* generate_research_report return without raising: empty counts, the
\* centrality list [], no opportunities, a complete report.
C6_EmptyStoreNeverRaises ==
    (store = <<>> /\ graph_file.exists)
        => /\ phase \in {"analyzed", "mined", "reported"}
               => /\ analysis.raised = "none"
                  /\ analysis.value.entity_counts.items = <<>>
                  /\ analysis.value.relationship_counts.items = <<>>
                  /\ analysis.value.tool_usage.items = <<>>
                  /\ analysis.value.dataset_usage.items = <<>>
                  /\ analysis.value.highly_connected_entities = <<>>
           /\ phase \in {"mined", "reported"}
               => /\ mined.raised = "none"
                  /\ mined.value = <<>>
           /\ phase = "reported"
               => /\ research_report.raised = "none"
                  /\ research_report.value.generated_hypotheses = <<>>
                  /\ research_report.value.summary.total_hypotheses = 0
                  /\ research_report.value.graph_analysis.total_triples = 0

\* The record names the paper: it has a DOI, a URL or a title.
NamesPaper(md) == Has(md, "doi") \/ Has(md, "url") \/ Has(md, "title")

\* C11: for a metadata record with a DOI, a URL or a title, a second
\* add_paper_metadata with the same record on the same store yields the same
\* paper identifier and leaves the statement set as the first call left it.
C11_ReingestIsIdempotent ==
    [][(calls = 1 /\ calls' = 2 /\ NamesPaper(metadata))
          => /\ raised = "none"
             /\ raised' = "none"
             /\ paper_uri' = paper_uri
             /\ Range(graph') = Range(graph)]_vars

\* The paper identifier of the last add_paper_metadata: the subject of the
\* first statement it handed to the store.
IngestedPaper == emitted[1][1]

\* Identifiers minted from a random uuid.
RandomPapers == {create_uri(PapersBase, u) : u \in Uuids}

\* C12: add_paper_metadata names the paper by strict preference: from the DOI
\* when there is one, else the URL when there is one, else minted from the
\* title; a random identifier only when the record has none of the three.
C12_IdentifierPreference ==
    (op = "add_paper_metadata")
        => /\ Has(metadata, "doi")
                  => IngestedPaper = URIRef(<<"https://doi.org/">> \o metadata.doi)
           /\ (~Has(metadata, "doi") /\ Has(metadata, "url"))
                  => IngestedPaper = URIRef(metadata.url)
           /\ (~Has(metadata, "doi") /\ ~Has(metadata, "url") /\ Has(metadata, "title"))
                  => IngestedPaper = create_uri(PapersBase, metadata.title)
           /\ IngestedPaper \in RandomPapers => ~NamesPaper(metadata)

\* C12 witness: a record with DOI, URL and title was ingested under the
\* DOI-derived identifier.
C12_Witness ==
    /\ op = "add_paper_metadata"
    /\ raised = "none"
    /\ Has(metadata, "doi") /\ Has(metadata, "url") /\ Has(metadata, "title")
    /\ paper_uri = URIRef(<<"https://doi.org/">> \o metadata.doi)
    /\ IngestedPaper = paper_uri

\* The hasCodeRepository statements among those the last call handed over,
\* and the repositories it declared.
EmittedLinks == {t \in Range(emitted) : t[2] = SCIENTIFIC("hasCodeRepository")}

EmittedRepos ==
    {t[1] : t \in {u \in Range(emitted) :
                     u[2] = RDF("type") /\ u[3] = SCIENTIFIC("CodeRepository")}}

\* C13: add_reproducibility_assessment emits a hasCodeRepository statement
\* only if it is given a paper identifier: without one the store gains no
\* such statement, with one the repository is linked to exactly that paper.
C13_LinkOnlyToGivenPaper ==
    (op = "add_reproducibility_assessment")
        => /\ given_paper_uri = NoneTerm
                  => /\ EmittedLinks = {}
                     /\ \A i \in (sizeBefore + 1)..Len(graph) :
                            graph[i][2] # SCIENTIFIC("hasCodeRepository")
           /\ given_paper_uri # NoneTerm
                  => EmittedLinks =
                         {<<given_paper_uri, SCIENTIFIC("hasCodeRepository"), r>> :
                             r \in EmittedRepos}

\* C13 witness: an assessment of a repository was ingested for a paper that
\* is in the store, and the link to that paper was handed over.
C13_Witness ==
    /\ op = "add_reproducibility_assessment"
    /\ given_paper_uri # NoneTerm
    /\ given_paper_uri = paper_uri
    /\ <<paper_uri, SCIENTIFIC("hasCodeRepository"), URIRef(RepoUrl1)>> \in Range(graph)
    /\ Cardinality(EmittedLinks) = 1

\* Namespaces create_uri is called with.
MintingBases ==
    {ToolsBase, DatasetsBase, AuthorsBase, OrgsBase, KeywordsBase, PapersBase,
     MethodsBase, ResultsBase, ConclusionsBase, AssessmentsBase}

\* The term is what create_uri returns for one of its namespaces.
IsMinted(term) ==
    /\ term.k = "uri"
    /\ term.v # <<>>
    /\ \E b \in MintingBases :
           /\ term.v[1] = b[1]
           /\ term = create_uri(b, Tail(term.v))

\* The term is a class of one of the vocabularies (the object of a type
\* statement), which names no entity of the input.
IsVocabulary(term) ==
    /\ term.k = "uri"
    /\ Len(term.v) = 2
    /\ term.v[1] \in {RDF("x").v[1], DCTERMS("x").v[1], FOAF("x").v[1],
                       SCHEMA("x").v[1], REPRO("x").v[1], SCIENTIFIC("x").v[1]}

\* C14: each subject and each non-literal object of every statement that
\* ingestion emits is an identifier create_uri produced; no statement refers
\* to an identifier that was not minted that way.
C14_OnlyMintedIdentifiers ==
    (op # "none")
        => \A i \in 1..Len(emitted) :
               /\ IsMinted(emitted[i][1])
               /\ emitted[i][3].k # "lit"
                      => (IsMinted(emitted[i][3]) \/ IsVocabulary(emitted[i][3]))

\* The opportunities of one type in what the miner returned.
MinedOfType(type) == {i \in 1..Len(mined.value) : mined.value[i].type = type}

\* The usage table of datasets the analysis holds.
DatasetItems == analysis.value.dataset_usage.items

\* C15: find_research_opportunities emits one dataset_reuse opportunity for
\* each dataset used exactly once, none for a dataset with another usage
\* count, and never more than 5 of them.
C15_DatasetReuseOncePerSingleUse ==
    (phase = "mined" /\ DatasetItems # <<>>)
        => /\ mined.raised = "none"
           /\ \A k \in 1..Len(DatasetItems) :
                  LET for_it == {i \in MinedOfType("dataset_reuse") :
                                    mined.value[i].dataset = DatasetItems[k].key}
                  IN  /\ Cardinality(for_it) <= 1
                      /\ DatasetItems[k].count # 1 => for_it = {}
           /\ Cardinality(MinedOfType("dataset_reuse"))
                  = Min(ReuseLimit,
                        Cardinality({k \in 1..Len(DatasetItems) : DatasetItems[k].count = 1}))

\* The scores the analysis observed, in hundredths.
ObservedScores == analysis.value.reproducibility_scores

\* C16: find_research_opportunities emits exactly one
\* reproducibility_improvement opportunity, carrying the mean, when the mean
\* of the observed scores is below 0.7, and none when it is 0.7 or more or
\* when no score was observed.
C16_ReproImprovementBelowThreshold ==
    (phase = "mined")
        => /\ mined.raised = "none"
           /\ IF ObservedScores # <<>> /\ Sum(ObservedScores) < 70 * Len(ObservedScores)
              THEN /\ Cardinality(MinedOfType("reproducibility_improvement")) = 1
                   /\ \A i \in MinedOfType("reproducibility_improvement") :
                          mined.value[i].current_avg_score
                              = [sum |-> Sum(ObservedScores), count |-> Len(ObservedScores)]
              ELSE MinedOfType("reproducibility_improvement") = {}

\* The backend answered with JSON that is no array of hypothesis objects.
WrongShape ==
    \/ backend.kind \in {"json_object", "json_number", "json_string"}
    \/ /\ backend.kind = "json_array"
       /\ \E i \in 1..Len(backend.items) : ~IsDict(backend.items[i])

\* C17: a backend response that parses as JSON but is not an array of
\* hypothesis objects counts as a backend failure: the hypotheses returned
\* come from the fallback path and hold nothing taken from the response.
C17_WrongShapeFallsBack ==
    (synthDone /\ BackendAsked /\ WrongShape)
        => /\ synthResult = _generate_rule_based_hypotheses(opportunities, num_hypotheses)
           /\ "items" \in DOMAIN backend
                  => \A i \in 1..Len(synthResult.value) :
                         synthResult.value[i] \notin Range(backend.items)

\* The graph file of the request cannot be read or parsed at all.
Unreadable == request.graph_file.outcome = "error"
                  /\ request.graph_file.suffix \in {".json", ".ttl"}

\* C18: when the graph file cannot be read or parsed at all,
\* generate_research_report propagates a load error to its caller and returns
\* no report.
C18_LoadErrorPropagates ==
    (request.called /\ Unreadable) => reply.raised # "none"

\* The hypotheses of the report were produced by the backend: a key is set
\* and the backend answered with JSON.
ByBackend ==
    /\ request.api_key
    /\ request.backend.kind \in {"json_array", "json_object", "json_number", "json_string"}
    /\ ~Unreadable

\* C19: generation_method names the backend ("AI") only when the hypotheses
\* of the report were produced by the backend, and names the template or
\* fallback path whenever the fallback produced them, also when a configured
\* backend failed.
C19_MethodNamesThePath ==
    (request.called /\ reply.raised = "none" /\ reply.value.generated_hypotheses # <<>>)
        => /\ reply.value.generation_method = "AI" => ByBackend
           /\ ~ByBackend => reply.value.generation_method \in {"Template-based", "Fallback"}

\* The novelty scores (in tenths) of the hypotheses of the report returned.
ReportedNovelty ==
    LET hyps == research_report.value.generated_hypotheses
    IN  [i \in 1..Len(hyps) |->
            IF "novelty_score" \in DOMAIN hyps[i] THEN hyps[i].novelty_score ELSE 0]

\* C20: the avg_novelty_score of the report generate_research_report
\* returns is the arithmetic mean of novelty_score over the generated
\* hypotheses, and 0 when there is none.  The mean is kept as sum/count.
C20_AvgNoveltyIsTheMean ==
    (phase = "reported" /\ graph_file.exists)
        => /\ research_report.raised = "none"
           /\ LET avg == research_report.value.summary.avg_novelty_score
              IN  IF ReportedNovelty = <<>>
                  THEN avg.sum = 0 /\ avg.count > 0
                  ELSE /\ avg.count > 0
                       /\ avg.sum * Len(ReportedNovelty) = avg.count * Sum(ReportedNovelty)

\* The hypotheses given whose feasibility field is b.
WithFeasibility(b) ==
    {i \in 1..Len(hypotheses) :
        "feasibility" \in DOMAIN hypotheses[i] /\ hypotheses[i].feasibility = b}

\* C21: feasibility_distribution has exactly the buckets high, medium and
\* low, each bucket counts the hypotheses whose feasibility is that value,
\* and a hypothesis whose feasibility is none of the three adds to no bucket.
C21_FeasibilityBuckets ==
    distribution.raised = "none"
        => /\ DOMAIN distribution.value = {"high", "medium", "low"}
           /\ \A b \in {"high", "medium", "low"} :
                  distribution.value[b] = Cardinality(WithFeasibility(b))

\* The entities of the co-reference graph, in the order the statements of
\* the store first mention them as the subject or the object of a statement
\* whose object is a URI.
Linking == SelectSeq(store, LAMBDA t : t[3].k = "uri")

Entities ==
    Unique(Flatten([i \in 1..Len(Linking) |->
                       <<Str(Linking[i][1]), Str(Linking[i][3])>>]))

FirstAppearance(e) == CHOOSE i \in 1..Len(Entities) : Entities[i] = e

\* The degree of an entity: its neighbours, a link to itself counted twice.
Neighbours(e) ==
    {Str(t[3]) : t \in {u \in Range(Linking) : Str(u[1]) = e}}
    \cup {Str(t[1]) : t \in {u \in Range(Linking) : Str(u[3]) = e}}

EntityDegree(e) ==
    Cardinality(Neighbours(e) \ {e}) + (IF e \in Neighbours(e) THEN 2 ELSE 0)

Connected == analysis.value.highly_connected_entities

\* C22: analyze_graph_patterns returns at most 10 (entity, centrality) pairs
\* in non-increasing order of centrality, each centrality is
\* degree(entity) / (N - 1), no omitted entity has a centrality strictly
\* greater than an included one, and equal centralities keep the order of
\* first appearance.
C22_TopTenByCentrality ==
    (phase = "analyzed" /\ analysis.raised = "none" /\ Len(Entities) > 1)
        => /\ Len(Connected) <= 10
           /\ \A i \in 1..Len(Connected) :
                  /\ Connected[i].node \in Range(Entities)
                  /\ Connected[i].num = EntityDegree(Connected[i].node)
                  /\ Connected[i].den = Len(Entities) - 1
           /\ \A i, j \in 1..Len(Connected) :
                  i < j => /\ Connected[i].num >= Connected[j].num
                           /\ Connected[i].num = Connected[j].num
                                  => FirstAppearance(Connected[i].node)
                                         < FirstAppearance(Connected[j].node)
           /\ \A e \in Range(Entities) \ {Connected[i].node : i \in 1..Len(Connected)} :
                  \A i \in 1..Len(Connected) : EntityDegree(e) <= Connected[i].num

\* More than 10 entities, so that some are omitted, two of the included
\* ones tie, and the order returned is not the order of appearance.
C22_Witness ==
    /\ phase = "analyzed"
    /\ analysis.raised = "none"
    /\ Len(Entities) > 10
    /\ Len(Connected) = 10
    /\ \E i, j \in 1..Len(Connected) : i < j /\ Connected[i].num = Connected[j].num
    /\ \E i, j \in 1..Len(Connected) :
           i < j /\ FirstAppearance(Connected[i].node) > FirstAppearance(Connected[j].node)

\* C23: every centrality reported for an entity of a graph produced by
\* ingestion is a fraction between 0 and 1 inclusive: the degree of the
\* entity never exceeds the number of other entities.
C23_CentralityIsAFraction ==
    (phase = "analyzed" /\ analysis.raised = "none")
        => \A i \in 1..Len(Connected) :
               /\ 0 <= Connected[i].num
               /\ Connected[i].num <= Connected[i].den
               /\ EntityDegree(Connected[i].node) <= Len(Entities) - 1

\* C24: once the store is loaded, analyze_graph_patterns,
\* find_research_opportunities, generate_hypotheses_with_llm and
\* _generate_rule_based_hypotheses leave the statement store and the
\* co-reference graph as they were right after loading.
C24_AnalysisReadsOnly ==
    [][(phase \in {"loaded", "analyzed", "mined"})
          => (store' = store /\ nx_graph' = nx_graph)]_vars

\* All three calls were made on a store that holds statements.
C24_Witness ==
    /\ phase = "hypothesized"
    /\ store # <<>>
    /\ analysis.raised = "none"
    /\ mined.raised # "not called"
    /\ hypotheses # <<>>

\* The assessment entities of the store.
AssessmentEntities(g) ==
    {t[1] : t \in {u \in Range(g) :
                      u[2] = RDF("type") /\ u[3] = REPRO("ReproducibilityAssessment")}}

\* C25: re-ingesting the same assessment record into the same store reuses
\* the assessment identifier: the store holds exactly one assessment entity
\* and the statement set after the second call equals the set after the
\* first.
C25_ReassessIsIdempotent ==
    [][(calls = 1 /\ calls' = 2)
          => /\ Cardinality(AssessmentEntities(graph')) = 1
             /\ Range(graph') = Range(graph)]_vars

\* The position of a step in the order of the pipeline.
StepRank(step) == CHOOSE i \in 1..Len(PipelineSteps) : PipelineSteps[i] = step

\* The steps the call asks for.
AskedSteps == {step \in Range(PipelineSteps) : Requested(pipeline_run, step)}

\* C30: run_complete_pipeline runs metadata extraction (only with a paper),
\* reproducibility assessment (only with a repository), graph building,
\* hypothesis generation and the summary report strictly in that order; a
\* step starts only after every earlier requested step has succeeded; a
\* failing step raises, so that no later step runs; with neither a paper
\* nor a repository the call raises before any step.
C30_StepsInOrder ==
    LET started == pipeline_run.started
        succeeded == {ResultKey(step) : step \in Range(PipelineSteps)}
                         \cap DOMAIN pipeline_run.results
    IN  /\ \A i, j \in 1..Len(started) :
               i < j => StepRank(started[i]) < StepRank(started[j])
        /\ Range(started) \subseteq AskedSteps
        /\ \A i \in 1..Len(started) :
               \A step \in AskedSteps :
                   StepRank(step) < StepRank(started[i])
                       => /\ step \in Range(started)
                          /\ ResultKey(step) \in succeeded
        /\ pipeline_run.raised # "none"
               => /\ pipeline_run.at = "raised"
                  /\ started # <<>> => ResultKey(started[Len(started)]) \notin succeeded
        /\ (~Truthy(pipeline_run.paper_path) /\ ~Truthy(pipeline_run.repo_url))
               => started = <<>> /\ pipeline_run.at \in {"check", "raised"}
        /\ pipeline_run.at = "returned" => Range(started) = AskedSteps

\* A call with a repository only in which the graph step failed after the
\* assessment succeeded.
C30_Witness ==
    /\ pipeline_run.at = "raised"
    /\ pipeline_run.started = <<"assess_reproducibility", "build_knowledge_graph">>
    /\ DOMAIN pipeline_run.results = {"reproducibility_file"}

\* A path inside the directory of job j.
InDirectoryOf(path, j) == path[1] = "analysis_results/" /\ path[2] = j

\* A file content that comes from the request of job j and from files of
\* its directory only.
OwnContent(c, j) ==
    /\ "input" \in DOMAIN c => c.input = processing_jobs[j].request.paper_url
    /\ "repo" \in DOMAIN c => c.repo = processing_jobs[j].request.repo_url
    /\ "graph" \in DOMAIN c => InDirectoryOf(c.graph, j)
    /\ "metadata" \in DOMAIN c =>
           /\ Truthy(c.metadata) => InDirectoryOf(c.metadata, j)
           /\ Truthy(c.reproducibility) => InDirectoryOf(c.reproducibility, j)

\* C26: with jobs interleaved, the background task of job j reads and
\* writes only entry j of the job table and works in its own directory:
\* a step of the task of j leaves every other job's entry and task as they
\* were, changes files of the directory of j only, and the results it
\* attaches come from the request and the directory of j.
C26_JobsShareNoState ==
    [][\A j \in JobIds :
          task'[j] # task[j]
              => /\ \A k \in JobIds \ {j} :
                        /\ task'[k] = task[k]
                        /\ k \in DOMAIN processing_jobs
                               => processing_jobs'[k] = processing_jobs[k]
                        /\ k \notin DOMAIN processing_jobs
                               => k \notin DOMAIN processing_jobs'
                 /\ \A path \in DOMAIN disk' :
                        (path \notin DOMAIN disk \/ disk'[path] # disk[path])
                            => InDirectoryOf(path, j)
                 /\ \A path \in DOMAIN disk' :
                        InDirectoryOf(path, j) => OwnContent(disk'[path], j)
                 /\ "results" \in DOMAIN processing_jobs'[j]
                        => \A name \in DOMAIN processing_jobs'[j].results :
                               OwnContent(processing_jobs'[j].results[name], j)]_vars

\* Two tasks in flight at once, on different requests, one of them past its
\* pipeline run.
C26_Witness ==
    /\ task["job-1"].at = "ran"
    /\ task["job-2"].at = "prepared"
    /\ processing_jobs["job-1"].request # processing_jobs["job-2"].request
    /\ \E path \in DOMAIN disk : InDirectoryOf(path, "job-1")

\* The job exists and its status is final.
Settled(j) ==
    /\ j \in DOMAIN processing_jobs
    /\ processing_jobs[j].status \in {"completed", "failed"}

\* C27: every job created by analyze-paper eventually reaches status
\* completed or failed, whether the pipeline returns or raises, provided the
\* steps of its task terminate.
C27_EveryJobSettles ==
    \A j \in JobIds : (j \in DOMAIN processing_jobs) ~> Settled(j)

\* One job failed in its pipeline and another completed.
C27_Witness ==
    /\ Settled("job-1") /\ processing_jobs["job-1"].status = "failed"
    /\ processing_jobs["job-1"].error = "RuntimeError"
    /\ Settled("job-2") /\ processing_jobs["job-2"].status = "completed"

StatusMoves ==
    {<<"pending", "processing">>, <<"processing", "completed">>,
     <<"processing", "failed">>}

\* A step moves the status of a job it changes along StatusMoves, removes
\* no job, and enters new jobs as pending.
StatusStep ==
    /\ \A j \in DOMAIN processing_jobs :
           /\ j \in DOMAIN processing_jobs'
           /\ processing_jobs'[j].status # processing_jobs[j].status
                  => <<processing_jobs[j].status, processing_jobs'[j].status>>
                         \in StatusMoves
    /\ \A k \in DOMAIN processing_jobs' \ DOMAIN processing_jobs :
           processing_jobs'[k].status = "pending"

StatusSound ==
    \A j \in DOMAIN processing_jobs :
        /\ processing_jobs[j].status \in {"pending", "processing", "completed", "failed"}
        /\ processing_jobs[j].status = "completed"
               => /\ processing_jobs[j].progress = 100
                  /\ "results" \in DOMAIN processing_jobs[j]

\* C28: a job's status is one of pending, processing, completed, failed; it
\* only moves pending -> processing -> (completed | failed) and never
\* leaves completed or failed; completed implies progress = 100 with results
\* attached.
C28_JobStatusLifecycle == []StatusSound /\ [][StatusStep]_vars

\* A completed job whose results were downloaded, beside a failed one.
C28_Witness ==
    /\ Settled("job-1") /\ processing_jobs["job-1"].status = "completed"
    /\ <<"temp_downloads/", "results_", "job-1", ".json">> \in DOMAIN disk
    /\ Settled("job-2") /\ processing_jobs["job-2"].status = "failed"

\* C29: in every report generate_research_report returns, the fallback
\* report after an internal error included and for every requested
\* num_hypotheses, total_hypotheses is the length of generated_hypotheses.
C29_TotalIsTheLength ==
    (request.called /\ reply.raised = "none")
        => reply.value.total_hypotheses = Len(reply.value.generated_hypotheses)

=============================================================================
